---- MODULE Spec2Model ----
(***************************************************************************)
(* A model of the lowering engine of the compiler (AST -> SSA IR) and of   *)
(* its driver.                                                             *)
(*                                                                         *)
(*   src/src/codegen/codegen.cxx            expression, statement and      *)
(*                                          top-level visitors             *)
(*   src/src/compiler/src/codegen/codegen.cpp   CodeGenerator (driver)     *)
(*                                                                         *)
(* The AST is not stored: the lowering walks it depth first, so the model  *)
(* lets the environment reveal the next node when the walk reaches it.     *)
(* `frames` is the C++ call stack of the recursive lowering functions.     *)
(***************************************************************************)
EXTENDS Integers, Sequences, FiniteSets, TLC

VARIABLES
  pc,        \* "top": between top-level items; "body": inside function_define;
             \* "error": an exception left the lowering; "crash": the process died
  err,       \* the message of the exception, "" when none
  errpos,    \* the argument number printed in the message (0 when none)
  fns,       \* llvm::Module: function name -> function
  blocks,    \* every llvm::BasicBlock created: [parent, ins]
  cur,       \* builder.GetInsertBlock()
  slots,     \* every llvm::AllocaInst created: its allocated type
  frames,    \* the stack of active codegen_statement / visitor invocations
  nitems,    \* top-level items lowered so far
  nstmts,    \* statements lowered so far
  ev,        \* the last handler that ran and what it was given
  lim,       \* the size of the input: [items, stmts], fixed by Init
  drv        \* the CodeGenerator instance (driver)

vars == <<pc, err, errpos, fns, blocks, cur, slots, frames, nitems, nstmts, ev, lim, drv>>

lowering == <<pc, err, errpos, fns, blocks, cur, slots, frames, nitems, nstmts, ev, lim>>

----------------------------------------------------------------------------
(* Bounds of the model. *)

\* Top-level items of a translation unit.
MaxItems == 2

\* Statements of a translation unit, over all its function bodies.
MaxStmts == 3

\* Statements, where the expressions are the subject.
MaxExprStmts == 2

\* Parameters of a function declaration.
MaxParams == 3

\* Translation units handed to a CodeGenerator.
MaxUnits == 2

\* Operations invoked on a CodeGenerator after its construction.
MaxDriverOps == 3

\* Top-level items of a translation unit handed to a CodeGenerator.
MaxUnitItems == 1

\* Characters of a source text handed to the error reporter.
MaxText == 3

\* Errors formatted over one source text.
MaxReports == 2

----------------------------------------------------------------------------
(* Types: codegen_common::typename_to_type. *)

Ptr(t, is_ptr) == IF is_ptr THEN t \o "*" ELSE t

typename_to_type(type, is_ptr) ==
  CASE type = "void" -> [ok |-> TRUE, type |-> Ptr("void", is_ptr), is_signed |-> FALSE]
    [] type = "i8"   -> [ok |-> TRUE, type |-> Ptr("i8", is_ptr),   is_signed |-> TRUE]
    [] type = "u8"   -> [ok |-> TRUE, type |-> Ptr("i8", is_ptr),   is_signed |-> FALSE]
    [] type = "i16"  -> [ok |-> TRUE, type |-> Ptr("i16", is_ptr),  is_signed |-> TRUE]
    [] type = "u16"  -> [ok |-> TRUE, type |-> Ptr("i16", is_ptr),  is_signed |-> FALSE]
    [] type = "i32"  -> [ok |-> TRUE, type |-> Ptr("i32", is_ptr),  is_signed |-> TRUE]
    [] type = "u32"  -> [ok |-> TRUE, type |-> Ptr("i32", is_ptr),  is_signed |-> FALSE]
    [] type = "i64"  -> [ok |-> TRUE, type |-> Ptr("i64", is_ptr),  is_signed |-> TRUE]
    [] type = "u64"  -> [ok |-> TRUE, type |-> Ptr("i64", is_ptr),  is_signed |-> FALSE]
    [] type = "bool" -> [ok |-> TRUE, type |-> Ptr("i8", is_ptr),   is_signed |-> FALSE]
    [] OTHER         -> [ok |-> FALSE, type |-> "", is_signed |-> FALSE]

----------------------------------------------------------------------------
(* symbol_table: a map from names to variable_info {inst, is_mutable,      *)
(* is_signed}.                                                             *)

EmptyScope == [n \in {} |-> 0]

exists(scope, name) == name \in DOMAIN scope

\* unordered_map::insert: an existing entry is kept.
regist(scope, name, info) ==
  IF name \in DOMAIN scope THEN scope
  ELSE [n \in DOMAIN scope \cup {name} |-> IF n = name THEN info ELSE scope[n]]

variable_info(inst, is_mutable, is_signed) ==
  [inst |-> inst, is_mutable |-> is_mutable, is_signed |-> is_signed]

----------------------------------------------------------------------------
(* Basic blocks. A block is [parent, ins]: the function it was inserted    *)
(* into ("" while detached) and its instructions in order.                 *)

TermOps == {"br", "condbr", "ret"}

IsTerminator(i) == i.op \in TermOps

\* llvm::BasicBlock::getTerminator: the last instruction, if a terminator.
HasTerminator(bs, b) ==
  /\ bs[b].ins # <<>>
  /\ IsTerminator(bs[b].ins[Len(bs[b].ins)])

\* The builder appends at the end of the insert block.
Emit(bs, b, instrs) == [bs EXCEPT ![b].ins = @ \o instrs]

NewBlock(parent) == [parent |-> parent, ins |-> <<>>]

Br(to) == [op |-> "br", to |-> to]

CondBr(t, f) == [op |-> "condbr", to |-> t, else_to |-> f]

Ret(slot) == [op |-> "ret", slot |-> slot]

Store(slot, ty) == [op |-> "store", slot |-> slot, ty |-> ty]

Load(slot) == [op |-> "load", slot |-> slot]

Op(name) == [op |-> name]

----------------------------------------------------------------------------
(* Expressions (ast::expression) and expression_visitor.                   *)
(*   [k |-> "uint", v]            unsigned integer literal                 *)
(*   [k |-> "bool", v]            boolean literal                          *)
(*   [k |-> "var", name]          variable_ref                             *)
(*   [k |-> "bin", op, lhs, rhs]  bin_op_expr                              *)
(*   [k |-> "call", callee, args] function_call_expr                       *)
(* The result of lowering is [err, pos, ty, ins, ub]: the exception thrown *)
(* ("" when none), the argument number in its message, the type of the     *)
(* value, the instructions the builder emitted (also those emitted before  *)
(* a throw), and whether the lowering read past the end of a vector.       *)

Lit(n) == [k |-> "uint", v |-> n]

BoolLit(b) == [k |-> "bool", v |-> b]

Var(name) == [k |-> "var", name |-> name]

Bin(op, lhs, rhs) == [k |-> "bin", op |-> op, lhs |-> lhs, rhs |-> rhs]

Call(callee, args) == [k |-> "call", callee |-> callee, args |-> args]

Value(ty, ins) == [err |-> "", pos |-> 0, ty |-> ty, ins |-> ins, ub |-> FALSE]

Thrown(msg, ins) == [err |-> msg, pos |-> 0, ty |-> "", ins |-> ins, ub |-> FALSE]

AssignOps == {"=", "+=", "-=", "*=", "/=", "%="}

E_UnknownVar   == "unknown variable"
E_UnknownVarName == "unknown variable name"
E_ReadOnly     == "assignment of read-only variable"
E_NotVariable  == "left-hand side was not as variable"
E_UnknownOp    == "unknown operator"
E_UnknownFn    == "unknown function"
E_Arity        == "incorrect arguments passed"
E_ArgType      == "incompatible type for argument"
E_Redefinition == "redefinition"
E_UndefVarType == "variables of undefined type cannot be defined"
E_RetType      == "incompatible type for result type"
E_FirstVararg  == "requires a named argument before '...'"
E_MultiVararg  == "cannot have multiple variable arguments"
E_UndefArgType == "arguments of undefined types cannot be declared"
E_UndefRetType == "return type cannot be an undefined type"
E_Verify       == "verifyFunction"
E_ConvUnknown  == "conversion to an unknown type"

----------------------------------------------------------------------------
(* expression_visitor::operator()(const ast::bin_op_expr&), the assignment *)
(* forms.                                                                  *)

\* A variant that never looks at the signedness.
CompoundInstr_AlwaysSigned(op, is_signed) ==
  CASE op = "+=" -> "add"
    [] op = "-=" -> "sub"
    [] op = "*=" -> "mul"
    [] op = "/=" -> "sdiv"
    [] op = "%=" -> "srem"

\* The operator a compound assignment applies to the loaded value and the
\* right-hand side.
CompoundInstr(op, is_signed) ==
  CASE op = "+=" -> "add"
    [] op = "-=" -> "sub"
    [] op = "*=" -> "mul"
    [] op = "/=" -> IF is_signed THEN "sdiv" ELSE "udiv"
    [] op = "%=" -> IF is_signed THEN "srem" ELSE "urem"

\* A variant without the check of is_mutable.
AssignTargetError_NoMutability(scope, name) ==
  IF ~exists(scope, name) THEN E_UnknownVarName ELSE ""

\* The checks on the looked-up target: the message thrown, "" when none.
AssignTargetError(scope, name) ==
  IF ~exists(scope, name) THEN E_UnknownVarName
  ELSE IF ~scope[name].is_mutable THEN E_ReadOnly
  ELSE ""

BinInstr(name, lty, rty) == [op |-> name, lty |-> lty, rty |-> rty]

\* A variant that returns the value it has just computed or stored, without
\* the load after the store.
AssignEmit_NoReload(op, info, sty, rty) ==
  IF op = "="
    THEN <<Store(info.inst, rty)>>
    ELSE <<Load(info.inst),
           BinInstr(CompoundInstr(op, info.is_signed), sty, rty),
           Store(info.inst, sty)>>

\* The instructions emitted once the checks have passed. "=" stores, then
\* the unconditional load of the old value, then the load that is returned.
AssignEmit(op, info, sty, rty) ==
  IF op = "="
    THEN <<Store(info.inst, rty), Load(info.inst), Load(info.inst)>>
    ELSE <<Load(info.inst),
           BinInstr(CompoundInstr(op, info.is_signed), sty, rty),
           Store(info.inst, sty),
           Load(info.inst)>>

----------------------------------------------------------------------------
(* expression_visitor::operator()(const ast::function_call_expr&).         *)

\* What an out-of-bounds read of args_value may do.
UBOutcomes == {"crash", "differ", "equal"}

E_Crash == "CRASH"

\* The arity check made before any argument is lowered.
ArityError(f, nargs) == ~f.vararg /\ Len(f.ptypes) # nargs

\* The number printed for the mismatching argument; idx has already been
\* incremented by the subscript args_value[idx++].
ArgNumberInMessage(idx) == idx + 1

\* "Verify arguments": walks the callee's parameters, idx counts from 0.
RECURSIVE VerifyArguments(_, _, _, _)
VerifyArguments(ptypes, tys, idx, ubo) ==
  IF idx >= Len(ptypes) THEN [err |-> "", pos |-> 0, ub |-> FALSE]
  ELSE IF idx >= Len(tys)
    THEN \* args_value[idx] is read past the end of the vector
      CASE ubo = "crash"  -> [err |-> E_Crash, pos |-> 0, ub |-> TRUE]
        [] ubo = "differ" -> [err |-> E_ArgType, pos |-> ArgNumberInMessage(idx + 1), ub |-> TRUE]
        [] OTHER          -> [VerifyArguments(ptypes, tys, idx + 1, ubo) EXCEPT !.ub = TRUE]
  ELSE IF tys[idx + 1] # ptypes[idx + 1]
    THEN [err |-> E_ArgType, pos |-> ArgNumberInMessage(idx + 1), ub |-> FALSE]
  ELSE VerifyArguments(ptypes, tys, idx + 1, ubo)

----------------------------------------------------------------------------
(* expression_visitor: the dispatch.                                       *)

CompareOps == {"==", "!=", "<", ">", "<=", ">="}

ArithInstr(op) ==
  CASE op = "+" -> "add"
    [] op = "-" -> "sub"
    [] op = "*" -> "mul"
    [] op = "/" -> "sdiv"
    [] op = "%" -> "srem"

RECURSIVE LowerExpr(_, _, _, _, _)
RECURSIVE LowerArgs(_, _, _, _, _, _)

\* The loop that lowers the arguments left to right: [err, pos, tys, ins, ub].
LowerArgs(args, i, scope, M, S, ubo) ==
  IF i > Len(args) THEN [err |-> "", pos |-> 0, tys |-> <<>>, ins |-> <<>>, ub |-> FALSE]
  ELSE LET a == LowerExpr(args[i], scope, M, S, ubo) IN
    IF a.err # ""
      THEN [err |-> a.err, pos |-> a.pos, tys |-> <<>>, ins |-> a.ins, ub |-> a.ub]
      ELSE LET rest == LowerArgs(args, i + 1, scope, M, S, ubo) IN
        [err |-> rest.err, pos |-> rest.pos, tys |-> <<a.ty>> \o rest.tys,
         ins |-> a.ins \o rest.ins, ub |-> a.ub \/ rest.ub]

\* A variant that counts the arguments after lowering them.
LowerCall_ArgsFirst(e, scope, M, S, ubo) ==
  IF e.callee \notin DOMAIN M THEN Thrown(E_UnknownFn, <<>>)
  ELSE LET f == M[e.callee]
           a == LowerArgs(e.args, 1, scope, M, S, ubo)
       IN
    IF a.err # ""
      THEN [err |-> a.err, pos |-> a.pos, ty |-> "", ins |-> a.ins, ub |-> a.ub]
    ELSE IF ArityError(f, Len(e.args)) THEN Thrown(E_Arity, a.ins)
    ELSE LET v == VerifyArguments(f.ptypes, a.tys, 0, ubo) IN
      IF v.err # ""
        THEN [err |-> v.err, pos |-> v.pos, ty |-> "", ins |-> a.ins, ub |-> a.ub \/ v.ub]
        ELSE [err |-> "", pos |-> 0, ty |-> f.ret,
              ins |-> Append(a.ins, [op |-> "call", callee |-> e.callee, nargs |-> Len(e.args)]),
              ub |-> a.ub \/ v.ub]

LowerCall(e, scope, M, S, ubo) ==
  IF e.callee \notin DOMAIN M THEN Thrown(E_UnknownFn, <<>>)
  ELSE LET f == M[e.callee] IN
    IF ArityError(f, Len(e.args)) THEN Thrown(E_Arity, <<>>)
    ELSE LET a == LowerArgs(e.args, 1, scope, M, S, ubo) IN
      IF a.err # ""
        THEN [err |-> a.err, pos |-> a.pos, ty |-> "", ins |-> a.ins, ub |-> a.ub]
        ELSE LET v == VerifyArguments(f.ptypes, a.tys, 0, ubo) IN
          IF v.err # ""
            THEN [err |-> v.err, pos |-> v.pos, ty |-> "", ins |-> a.ins, ub |-> a.ub \/ v.ub]
            ELSE [err |-> "", pos |-> 0, ty |-> f.ret,
                  ins |-> Append(a.ins, [op |-> "call", callee |-> e.callee, nargs |-> Len(e.args)]),
                  ub |-> a.ub \/ v.ub]

LowerAssign(e, scope, M, S, ubo) ==
  IF e.lhs.k # "var" THEN Thrown(E_NotVariable, <<>>)
  ELSE LET r == LowerExpr(e.rhs, scope, M, S, ubo) IN
    IF r.err # "" THEN r
    ELSE LET te == AssignTargetError(scope, e.lhs.name) IN
      IF te # "" THEN [r EXCEPT !.err = te, !.ty = ""]
      ELSE LET info == scope[e.lhs.name] IN
        [r EXCEPT !.ty = S[info.inst],
                  !.ins = @ \o AssignEmit(e.op, info, S[info.inst], r.ty)]

LowerBin(e, scope, M, S, ubo) ==
  LET l == LowerExpr(e.lhs, scope, M, S, ubo) IN
  IF l.err # "" THEN l
  ELSE LET r == LowerExpr(e.rhs, scope, M, S, ubo) IN
    IF r.err # "" THEN [r EXCEPT !.ins = l.ins \o @, !.ub = @ \/ l.ub]
    ELSE LET both == [err |-> "", pos |-> 0, ty |-> l.ty, ins |-> l.ins \o r.ins, ub |-> l.ub \/ r.ub] IN
      IF e.op \in {"+", "-", "*", "/", "%"}
        THEN [both EXCEPT !.ins = Append(@, BinInstr(ArithInstr(e.op), l.ty, r.ty))]
      ELSE IF e.op \in CompareOps
        THEN [both EXCEPT !.ty = "i8",
                          !.ins = @ \o <<BinInstr("icmp", l.ty, r.ty), Op("cast")>>]
      ELSE [both EXCEPT !.err = E_UnknownOp, !.ty = ""]

\* expression_visitor::operator()(conv_expr): lhs as type.
LowerConv(e, scope, M, S, ubo) ==
  LET l == LowerExpr(e.lhs, scope, M, S, ubo) IN
  IF l.err # "" THEN l
  ELSE LET as == typename_to_type(e.as, FALSE) IN
    IF ~as.ok THEN [l EXCEPT !.err = E_ConvUnknown, !.ty = ""]
    ELSE [l EXCEPT !.ty = as.type,
                   !.ins = Append(@, [op |-> "intcast", ty |-> as.type,
                                      is_signed |-> as.is_signed])]

LowerExpr(e, scope, M, S, ubo) ==
  CASE e.k = "uint" -> Value("i32", <<>>)
    [] e.k = "bool" -> Value("i8", <<Op("cast")>>)
    [] e.k = "var"  ->
         IF ~exists(scope, e.name) THEN Thrown(E_UnknownVar, <<>>)
         ELSE Value(S[scope[e.name].inst], <<Load(scope[e.name].inst)>>)
    [] e.k = "bin"  ->
         IF e.op \in AssignOps THEN LowerAssign(e, scope, M, S, ubo)
         ELSE LowerBin(e, scope, M, S, ubo)
    [] e.k = "call" -> LowerCall(e, scope, M, S, ubo)
    [] e.k = "conv" -> LowerConv(e, scope, M, S, ubo)

\* Every result the lowering of e can have: one, unless it reads out of
\* bounds, and then one per outcome of that read.
Lowered(e, scope, M, S) ==
  LET r == LowerExpr(e, scope, M, S, "crash") IN
  IF r.ub THEN {LowerExpr(e, scope, M, S, o) : o \in UBOutcomes} ELSE {r}

----------------------------------------------------------------------------
(* Top level: ast::function_declare is [name, params, ret, linkage]; a     *)
(* parameter is [name, type, qualifier, is_vararg].                        *)

Param(name, type, qualifier) ==
  [name |-> name, type |-> type, qualifier |-> qualifier, is_vararg |-> FALSE]

\* The "..." marker; its type field holds what the parser left there.
VarargMarker(type) == [name |-> "...", type |-> type, qualifier |-> "", is_vararg |-> TRUE]

Decl(name, params, ret) ==
  [name |-> name, params |-> params, ret |-> ret, linkage |-> ""]

\* The validation of the variadic marker: the message thrown, "" when none.
VarargError(ps) ==
  IF Len(ps) > 0 /\ ps[1].is_vararg THEN E_FirstVararg
  ELSE IF Cardinality({i \in 1..Len(ps) : ps[i].is_vararg}) > 1 THEN E_MultiVararg
  ELSE ""

HasVararg(ps) == \E i \in 1..Len(ps) : ps[i].is_vararg

named_params_length(ps) == IF HasVararg(ps) THEN Len(ps) - 1 ELSE Len(ps)

\* typename_to_type(...)->type: dereferences the optional without a check.
TypeOrGarbage(type) ==
  LET t == typename_to_type(type, FALSE) IN IF t.ok THEN t.type ELSE "?"

DerefsNullopt(node) ==
  \/ \E i \in 1..named_params_length(node.params) :
       ~typename_to_type(node.params[i].type, FALSE).ok
  \/ ~typename_to_type(node.ret, FALSE).ok

\* llvm::Function::Create: a name already in the module gets a suffix.
CreatedName(M, name) ==
  IF name \in DOMAIN M THEN name \o "." \o ToString(Cardinality(DOMAIN M)) ELSE name

NewFunction(node) ==
  LET n == named_params_length(node.params) IN
  [ptypes   |-> [i \in 1..n |-> TypeOrGarbage(node.params[i].type)],
   argnames |-> [i \in 1..n |-> node.params[i].name],
   vararg   |-> HasVararg(node.params),
   ret      |-> TypeOrGarbage(node.ret),
   linkage  |-> IF node.linkage = "" THEN "external" ELSE "internal",
   blocks   |-> <<>>,
   bodies   |-> 0,
   fpm_runs |-> 0]

AddFunction(M, name, f) ==
  [n \in DOMAIN M \cup {name} |-> IF n = name THEN f ELSE M[n]]

\* top_level_visitor::operator()(const ast::function_declare&):
\* [err, fns, name], name being the function created.
function_declare(node, M) ==
  LET ve == VarargError(node.params) IN
  IF ve # "" THEN [err |-> ve, fns |-> M, name |-> ""]
  ELSE [err  |-> "",
        fns  |-> AddFunction(M, CreatedName(M, node.name), NewFunction(node)),
        name |-> CreatedName(M, node.name)]

----------------------------------------------------------------------------
(* top_level_visitor::operator()(const ast::function_define&), up to the   *)
(* call that lowers the body.                                              *)

\* What reading node.decl.params past its end may give.
ParamUBOutcomes == {"crash", "undef", "valid"}

GarbageParam(ubo) ==
  [name |-> "?", type |-> IF ubo = "valid" THEN "i32" ELSE "?",
   qualifier |-> "", is_vararg |-> FALSE]

\* The variable_info registered for a parameter: {inst, is_mutable}, the
\* third member is value-initialized.
ParamInfo(inst, qualifier) ==
  IF qualifier = "mutable" THEN variable_info(inst, TRUE, FALSE)
  ELSE variable_info(inst, FALSE, FALSE)

\* The loop over func->args(): [err, scope, slots, ins, ub].
RECURSIVE DefineArgs(_, _, _, _, _, _)
DefineArgs(f, params, i, acc, S, ubo) ==
  IF i > Len(f.ptypes) THEN acc
  ELSE
    LET oob == i > Len(params)
        param_node == IF oob THEN GarbageParam(ubo) ELSE params[i]
        arg_type == typename_to_type(param_node.type, FALSE)
        inst == Len(acc.slots) + 1
    IN
    IF oob /\ ubo = "crash" THEN [acc EXCEPT !.err = E_Crash, !.ub = TRUE]
    ELSE IF ~arg_type.ok THEN [acc EXCEPT !.err = E_UndefArgType, !.ub = @ \/ oob]
    ELSE DefineArgs(f, params, i + 1,
           [err   |-> "",
            scope |-> regist(acc.scope, f.argnames[i], ParamInfo(inst, param_node.qualifier)),
            slots |-> Append(acc.slots, arg_type.type),
            ins   |-> Append(acc.ins, Store(inst, f.ptypes[i])),
            ub    |-> acc.ub \/ oob],
           S, ubo)

DefineArgsResults(f, params, S) ==
  LET start == [err |-> "", scope |-> EmptyScope, slots |-> S, ins |-> <<>>, ub |-> FALSE]
      r == DefineArgs(f, params, 1, start, S, "crash")
  IN IF r.ub THEN {DefineArgs(f, params, 1, start, S, o) : o \in ParamUBOutcomes} ELSE {r}

\* The frame of a function_define invocation that is lowering its body.
FuncFrame(name, node, retvar, end_bb) ==
  [k |-> "func", name |-> name, decl_name |-> node.name, ret |-> node.ret,
   retvar |-> retvar, end_bb |-> end_bb]

\* The frame of a codegen_statement invocation: its copy of the scope, the
\* loop targets it was given (0 is nullptr) and whether its loop over the
\* statements has met a terminator.
StmtFrame(scope, break_bb, continue_bb) ==
  [k |-> "cs", scope |-> scope, break_bb |-> break_bb, continue_bb |-> continue_bb,
   stop |-> FALSE]

----------------------------------------------------------------------------
(* The state of the lowering as a record, and the step that installs one.  *)

Here ==
  [pc |-> pc, err |-> err, errpos |-> errpos, fns |-> fns, blocks |-> blocks,
   cur |-> cur, slots |-> slots, frames |-> frames, nitems |-> nitems,
   nstmts |-> nstmts, ev |-> ev]

Set(n) ==
  /\ pc' = n.pc
  /\ err' = n.err
  /\ errpos' = n.errpos
  /\ fns' = n.fns
  /\ blocks' = n.blocks
  /\ cur' = n.cur
  /\ slots' = n.slots
  /\ frames' = n.frames
  /\ nitems' = n.nitems
  /\ nstmts' = n.nstmts
  /\ ev' = n.ev
  /\ UNCHANGED <<lim, drv>>

\* An exception unwinds every frame and ends the compilation.
Throw(n, msg, pos) ==
  [n EXCEPT !.pc = "error", !.err = msg, !.errpos = pos, !.frames = <<>>]

\* The process dies (a read or write through an invalid pointer).
Crash(n) == [n EXCEPT !.pc = "crash", !.err = E_Crash, !.frames = <<>>]

Top == frames[Len(frames)]

SetTop(fs, fr) == [fs EXCEPT ![Len(fs)] = fr]

\* A variant whose loop over the statements never looks at the terminator.
AfterStmt_NeverStops(fr, bs, b) == [fr EXCEPT !.stop = FALSE]

\* codegen_statement's loop, after a statement's visitor has returned:
\* "if a terminator is present, subsequent code generation is terminated".
AfterStmt(fr, bs, b) == [fr EXCEPT !.stop = HasTerminator(bs, b)]

\* The visitor of the next statement of the list is about to run.
AtStatement ==
  /\ pc = "body"
  /\ Len(frames) > 0
  /\ Top.k = "cs"
  /\ ~Top.stop
  /\ nstmts < lim.stmts

\* The statement list of the top codegen_statement is over (exhausted, or
\* left by the break on a terminator) and it returns to `kind`.
AtEndOf(kind) ==
  /\ pc = "body"
  /\ Len(frames) > 1
  /\ Top.k = "cs"
  /\ frames[Len(frames) - 1].k = kind

\* A statement's visitor returned normally: back in the enclosing loop.
Returned(n, fs, bs, b) ==
  [n EXCEPT !.frames = SetTop(fs, AfterStmt(fs[Len(fs)], bs, b)),
            !.blocks = bs, !.cur = b]

----------------------------------------------------------------------------
(* Top-level items: code_generator::codegen applies top_level_visitor to    *)
(* each node of the program.                                               *)

DeclareItem(D) ==
  /\ pc = "top"
  /\ nitems < lim.items
  /\ \E node \in D :
       LET r == function_declare(node, fns)
           n == [Here EXCEPT !.nitems = nitems + 1,
                             !.ev = [op |-> "declare", node |-> node]]
       IN
       IF r.err # "" THEN Set(Throw(n, r.err, 0))
       ELSE IF DerefsNullopt(node)
         THEN \/ Set(Crash(n))
              \/ Set([n EXCEPT !.fns = r.fns])
       ELSE Set([n EXCEPT !.fns = r.fns])

\* function_define from its start to the call of codegen_statement on the
\* body.
DefineBegin(D) ==
  /\ pc = "top"
  /\ nitems < lim.items
  /\ \E node \in D :
       LET found == node.name \in DOMAIN fns
           d == IF found THEN [err |-> "", fns |-> fns, name |-> node.name]
                ELSE function_declare(node, fns)
           n == [Here EXCEPT !.nitems = nitems + 1,
                             !.ev = [op |-> "define", node |-> node, found |-> found]]
       IN
       IF d.err # "" THEN Set(Throw(n, d.err, 0))
       ELSE
         LET f == d.fns[node.name]
             entry_bb == Len(blocks) + 1
             M1 == [d.fns EXCEPT ![node.name].blocks = Append(@, entry_bb),
                                 ![node.name].bodies = @ + 1]
             bs1 == Append(blocks, NewBlock(node.name))
         IN
         \/ /\ ~found /\ DerefsNullopt(node)
            /\ Set(Crash(n))
         \/ \E a \in DefineArgsResults(f, node.params, slots) :
              LET n1 == [n EXCEPT !.fns = M1, !.blocks = Emit(bs1, entry_bb, a.ins),
                                  !.slots = a.slots, !.cur = entry_bb]
                  return_type == typename_to_type(node.ret, FALSE)
                  end_bb == entry_bb + 1
                  retvar == IF node.ret = "void" THEN 0 ELSE Len(a.slots) + 1
              IN
              IF a.err = E_Crash THEN Set(Crash(n1))
              ELSE IF a.err # "" THEN Set(Throw(n1, a.err, 0))
              ELSE IF ~return_type.ok THEN Set(Throw(n1, E_UndefRetType, 0))
              ELSE Set([n1 EXCEPT
                     !.pc = "body",
                     !.blocks = Append(@, NewBlock("")),
                     !.slots = IF retvar = 0 THEN @ ELSE Append(@, return_type.type),
                     !.frames = <<FuncFrame(node.name, node, retvar, end_bb),
                                  StmtFrame(a.scope, 0, 0)>>])

----------------------------------------------------------------------------
(* Helpers of the statement visitors.                                      *)

NoExpr == [k |-> "none"]

\* func->getBasicBlockList().push_back(b), and BasicBlock::Create(ctx, "", func).
InsertBlock(bs, b, func) == [bs EXCEPT ![b].parent = func]

Inserted(M, func, b) == [M EXCEPT ![func].blocks = Append(@, b)]

\* A variant that branches without looking for a terminator.
BrIfOpen_Always(bs, b, to) == Emit(bs, b, <<Br(to)>>)

\* "if (!builder.GetInsertBlock()->getTerminator()) builder.CreateBr(to)".
BrIfOpen(bs, b, to) == IF HasTerminator(bs, b) THEN bs ELSE Emit(bs, b, <<Br(to)>>)

\* The comparison of a condition value with the boolean zero.
CondICmp(ty) == BinInstr("icmp", ty, "i8")

\* The state after lowering expression e in the current block, by case:
\* the lowering died, threw, or gave a value.
Died(r) == r.err = E_Crash

Threw(r) == r.err # "" /\ r.err # E_Crash

----------------------------------------------------------------------------
(* statement_visitor: expression statement, return, variable definition,   *)
(* break, continue, compound statement.                                    *)

ExprStmt(E) ==
  /\ AtStatement
  /\ \E e \in E : \E r \in Lowered(e, Top.scope, fns, slots) :
       LET bs1 == Emit(blocks, cur, r.ins)
           n == [Here EXCEPT !.nstmts = nstmts + 1, !.blocks = bs1,
                             !.ev = [op |-> "expr", e |-> e, scope |-> Top.scope]]
       IN
       IF Died(r) THEN Set(Crash(n))
       ELSE IF Threw(r) THEN Set(Throw(n, r.err, r.pos))
       ELSE Set(Returned(n, frames, bs1, cur))

\* The return type the statement is checked against: that of the function
\* the insert block belongs to.
FunctionReturnType(M, bs, b) == M[bs[b].parent].ret

ReturnStmt(E) ==
  /\ AtStatement
  /\ \E e \in E :
       LET ff == frames[1]
           n == [Here EXCEPT !.nstmts = nstmts + 1,
                             !.ev = [op |-> "return", e |-> e]]
       IN
       IF e = NoExpr
         THEN Set(Returned(n, frames, Emit(blocks, cur, <<Br(ff.end_bb)>>), cur))
         ELSE \E r \in Lowered(e, Top.scope, fns, slots) :
           LET bs1 == Emit(blocks, cur, r.ins)
               n1 == [n EXCEPT !.blocks = bs1]
               done == Emit(bs1, cur, <<Store(ff.retvar, r.ty), Br(ff.end_bb)>>)
           IN
           IF Died(r) THEN Set(Crash(n1))
           ELSE IF Threw(r) THEN Set(Throw(n1, r.err, r.pos))
           ELSE IF FunctionReturnType(fns, blocks, cur) # r.ty
             THEN Set(Throw(n1, E_RetType, 0))
           ELSE IF ff.retvar = 0
             THEN \* CreateStore(retval, nullptr)
                  \/ Set(Crash(n1))
                  \/ Set(Returned(n1, frames, done, cur))
           ELSE Set(Returned(n1, frames, done, cur))

\* The binding a variable definition registers; none for a qualifier that
\* is neither absent nor "mutable".
VarDefRegist(scope, name, qualifier, inst, is_signed) ==
  IF qualifier = "" THEN regist(scope, name, variable_info(inst, FALSE, is_signed))
  ELSE IF qualifier = "mutable" THEN regist(scope, name, variable_info(inst, TRUE, is_signed))
  ELSE scope

\* A variant that lets every name through.
IsRedefinition_Unchecked(scope, name) == FALSE

\* The first check of the visitor: the name is already in the scope.
IsRedefinition(scope, name) == exists(scope, name)

VarDefStmt(Ns, Ts, Qs, Is) ==
  /\ AtStatement
  /\ \E name \in Ns, type \in Ts, qualifier \in Qs, init \in Is :
       LET n == [Here EXCEPT !.nstmts = nstmts + 1,
                   !.ev = [op |-> "vardef", name |-> name, type |-> type,
                           qualifier |-> qualifier, init |-> init,
                           scope |-> Top.scope]]
           type_info == typename_to_type(type, FALSE)
           inst == Len(slots) + 1
           S1 == Append(slots, type_info.type)
           reg == SetTop(frames,
                    [Top EXCEPT !.scope =
                       VarDefRegist(@, name, qualifier, inst, type_info.is_signed)])
       IN
       IF IsRedefinition(Top.scope, name) THEN Set(Throw(n, E_Redefinition, 0))
       ELSE IF ~type_info.ok THEN Set(Throw(n, E_UndefVarType, 0))
       ELSE IF init = NoExpr
         THEN Set(Returned([n EXCEPT !.slots = S1], reg, blocks, cur))
       ELSE \E r \in Lowered(init, Top.scope, fns, S1) :
         LET bs1 == Emit(blocks, cur, r.ins)
             n1 == [n EXCEPT !.slots = S1, !.blocks = bs1]
         IN
         IF Died(r) THEN Set(Crash(n1))
         ELSE IF Threw(r) THEN Set(Throw(n1, r.err, r.pos))
         ELSE Set(Returned(n1, reg, Emit(bs1, cur, <<Store(inst, r.ty)>>), cur))

\* A variant that branches without looking at the target.
JumpInstrs_Unguarded(target) == <<Br(target)>>

\* break and continue: a branch only when the target is not nullptr.
JumpInstrs(target) == IF target # 0 THEN <<Br(target)>> ELSE <<>>

BreakStmt ==
  /\ AtStatement
  /\ LET n == [Here EXCEPT !.nstmts = nstmts + 1,
                 !.ev = [op |-> "break", target |-> Top.break_bb]]
     IN Set(Returned(n, frames, Emit(blocks, cur, JumpInstrs(Top.break_bb)), cur))

ContinueStmt ==
  /\ AtStatement
  /\ LET n == [Here EXCEPT !.nstmts = nstmts + 1,
                 !.ev = [op |-> "continue", target |-> Top.continue_bb]]
     IN Set(Returned(n, frames, Emit(blocks, cur, JumpInstrs(Top.continue_bb)), cur))

\* A variant in which a nested block starts with an empty table.
NewScope_Empty(scope) == EmptyScope

\* The scope a nested codegen_statement starts with: "symbol_table
\* new_scope = scope".
NewScope(scope) == scope

Nested(fr) == StmtFrame(NewScope(fr.scope), fr.break_bb, fr.continue_bb)

\* A variant in which the nested block worked on the table of the
\* enclosing one (a reference instead of a copy).
ScopeAfterNested_Shared(outer, inner) == inner

\* What the enclosing codegen_statement holds when the nested one returns.
ScopeAfterNested(outer, inner) == outer

\* The enclosing frame, two below the top, when a construct's body ends.
Leave(fs, k) ==
  LET keep == SubSeq(fs, 1, Len(fs) - k)
      outer == keep[Len(keep)]
  IN SetTop(keep, [outer EXCEPT !.scope = ScopeAfterNested(@, fs[Len(fs)].scope)])

CompoundStmt ==
  /\ AtStatement
  /\ Set([Here EXCEPT !.nstmts = nstmts + 1,
                      !.ev = [op |-> "compound"],
                      !.frames = Append(frames, Nested(Top))])

EndCompound ==
  /\ AtEndOf("cs")
  /\ LET n == [Here EXCEPT !.ev = [op |-> "end_compound", inner |-> Top.scope,
                                  outer |-> frames[Len(frames) - 1].scope,
                                  stopped |-> Top.stop]]
     IN Set(Returned(n, Leave(frames, 1), blocks, cur))

----------------------------------------------------------------------------
(* statement_visitor: if statement.                                        *)

IfFrame(func, else_bb, merge_bb, has_else) ==
  [k |-> "if", stage |-> "then", func |-> func, else_bb |-> else_bb,
   merge_bb |-> merge_bb, has_else |-> has_else]

IfStmt(C, ElseShapes) ==
  /\ AtStatement
  /\ \E c \in C, has_else \in ElseShapes : \E r \in Lowered(c, Top.scope, fns, slots) :
       LET bs1 == Emit(blocks, cur, r.ins)
           n == [Here EXCEPT !.nstmts = nstmts + 1, !.blocks = bs1,
                             !.ev = [op |-> "if", has_else |-> has_else]]
           func == blocks[cur].parent
           then_bb == Len(blocks) + 1
           else_bb == Len(blocks) + 2
           merge_bb == Len(blocks) + 3
       IN
       IF Died(r) THEN Set(Crash(n))
       ELSE IF Threw(r) THEN Set(Throw(n, r.err, r.pos))
       ELSE Set([n EXCEPT
              !.blocks = Emit(bs1, cur, <<CondICmp(r.ty), CondBr(then_bb, else_bb)>>)
                           \o <<NewBlock(func), NewBlock(""), NewBlock("")>>,
              !.fns = Inserted(fns, func, then_bb),
              !.cur = then_bb,
              !.frames = frames \o <<IfFrame(func, else_bb, merge_bb, has_else),
                                     Nested(Top)>>])

\* From the end of the else arm to the end of the visitor.
IfTail(n, fs, bs, M, b, fr) ==
  LET bs1 == InsertBlock(BrIfOpen(bs, b, fr.merge_bb), fr.merge_bb, fr.func) IN
  Returned([n EXCEPT !.fns = Inserted(M, fr.func, fr.merge_bb)], fs, bs1, fr.merge_bb)

EndThen ==
  /\ AtEndOf("if")
  /\ frames[Len(frames) - 1].stage = "then"
  /\ LET fr == frames[Len(frames) - 1]
         n == [Here EXCEPT !.ev = [op |-> "end_then", inner |-> Top.scope,
                                  outer |-> frames[Len(frames) - 2].scope,
                                  stopped |-> Top.stop]]
         bs1 == InsertBlock(BrIfOpen(blocks, cur, fr.merge_bb), fr.else_bb, fr.func)
         M1 == Inserted(fns, fr.func, fr.else_bb)
         outer == Leave(frames, 2)
     IN
     IF fr.has_else
       THEN Set([n EXCEPT !.blocks = bs1, !.fns = M1, !.cur = fr.else_bb,
                          !.frames = outer \o <<[fr EXCEPT !.stage = "else"],
                                                Nested(outer[Len(outer)])>>])
       ELSE Set(IfTail(n, outer, bs1, M1, fr.else_bb, fr))

EndElse ==
  /\ AtEndOf("if")
  /\ frames[Len(frames) - 1].stage = "else"
  /\ LET fr == frames[Len(frames) - 1]
         n == [Here EXCEPT !.ev = [op |-> "end_else", inner |-> Top.scope,
                                  outer |-> frames[Len(frames) - 2].scope,
                                  stopped |-> Top.stop]]
     IN Set(IfTail(n, Leave(frames, 2), blocks, fns, cur, fr))

----------------------------------------------------------------------------
(* statement_visitor: loop, while and for statements.                      *)

LoopFrame(kind, func, continue_bb, loop_end_bb) ==
  [k |-> kind, func |-> func, continue_bb |-> continue_bb, loop_end_bb |-> loop_end_bb]

\* A variant in which the body of a loop nested in another loop keeps the
\* targets of the outer loop.
BodyFrame_OuterTargets(fr, break_bb, continue_bb) ==
  IF fr.break_bb # 0
    THEN StmtFrame(NewScope(fr.scope), fr.break_bb, fr.continue_bb)
    ELSE StmtFrame(NewScope(fr.scope), break_bb, continue_bb)

\* The frame of the body: break goes to loop_end_bb, continue to continue_bb.
BodyFrame(fr, break_bb, continue_bb) == StmtFrame(NewScope(fr.scope), break_bb, continue_bb)

LoopStmt ==
  /\ AtStatement
  /\ LET func == blocks[cur].parent
         body_bb == Len(blocks) + 1
         loop_end_bb == Len(blocks) + 2
     IN Set([Here EXCEPT
          !.nstmts = nstmts + 1,
          !.ev = [op |-> "loop"],
          !.blocks = Emit(blocks, cur, <<Br(body_bb)>>) \o <<NewBlock(func), NewBlock("")>>,
          !.fns = Inserted(fns, func, body_bb),
          !.cur = body_bb,
          !.frames = frames \o <<LoopFrame("loop", func, body_bb, loop_end_bb),
                                 BodyFrame(Top, loop_end_bb, body_bb)>>])

\* After the body of a loop or a while: branch back, then open loop_end_bb.
LoopTail(n, fs, bs, M, b, fr) ==
  LET bs1 == InsertBlock(BrIfOpen(bs, b, fr.continue_bb), fr.loop_end_bb, fr.func) IN
  Returned([n EXCEPT !.fns = Inserted(M, fr.func, fr.loop_end_bb)], fs, bs1, fr.loop_end_bb)

EndLoopBody ==
  /\ AtEndOf("loop")
  /\ LET n == [Here EXCEPT !.ev = [op |-> "end_loop", inner |-> Top.scope,
                                  outer |-> frames[Len(frames) - 2].scope,
                                  stopped |-> Top.stop]]
     IN Set(LoopTail(n, Leave(frames, 2), blocks, fns, cur, frames[Len(frames) - 1]))

WhileStmt(C) ==
  /\ AtStatement
  /\ \E c \in C :
       LET func == blocks[cur].parent
           cond_bb == Len(blocks) + 1
           body_bb == Len(blocks) + 2
           loop_end_bb == Len(blocks) + 3
           bs0 == Emit(blocks, cur, <<Br(cond_bb)>>)
                    \o <<NewBlock(func), NewBlock(""), NewBlock("")>>
           M0 == Inserted(fns, func, cond_bb)
       IN
       \E r \in Lowered(c, Top.scope, fns, slots) :
         LET bs1 == Emit(bs0, cond_bb, r.ins)
             n == [Here EXCEPT !.nstmts = nstmts + 1, !.blocks = bs1, !.fns = M0,
                               !.cur = cond_bb, !.ev = [op |-> "while"]]
         IN
         IF Died(r) THEN Set(Crash(n))
         ELSE IF Threw(r) THEN Set(Throw(n, r.err, r.pos))
         ELSE Set([n EXCEPT
                !.blocks = InsertBlock(
                             Emit(bs1, cond_bb, <<CondICmp(r.ty), CondBr(body_bb, loop_end_bb)>>),
                             body_bb, func),
                !.fns = Inserted(M0, func, body_bb),
                !.cur = body_bb,
                !.frames = frames \o <<LoopFrame("while", func, cond_bb, loop_end_bb),
                                       BodyFrame(Top, loop_end_bb, cond_bb)>>])

EndWhileBody ==
  /\ AtEndOf("while")
  /\ LET n == [Here EXCEPT !.ev = [op |-> "end_while", inner |-> Top.scope,
                                  outer |-> frames[Len(frames) - 2].scope,
                                  stopped |-> Top.stop]]
     IN Set(LoopTail(n, Leave(frames, 2), blocks, fns, cur, frames[Len(frames) - 1]))

\* An optional expression of a for statement: a value with no instruction
\* when absent.
LoweredOpt(e, scope, M, S) ==
  IF e = NoExpr THEN {Value("", <<>>)} ELSE Lowered(e, scope, M, S)

ForFrame(func, cond_bb, loop_bb, loop_end_bb) ==
  [k |-> "for", func |-> func, cond_bb |-> cond_bb, continue_bb |-> loop_bb,
   loop_end_bb |-> loop_end_bb]

\* The terminator of the condition block of a for statement.
ForCondInstrs(c, ty, body_bb, loop_end_bb) ==
  IF c = NoExpr THEN <<CondBr(body_bb, loop_end_bb)>>
  ELSE <<CondICmp(ty), CondBr(body_bb, loop_end_bb)>>

ForStmt(Inits, Conds) ==
  /\ AtStatement
  /\ \E i \in Inits, c \in Conds :
       \E ri \in LoweredOpt(i, Top.scope, fns, slots) :
         LET func == blocks[cur].parent
             cond_bb == Len(blocks) + 1
             loop_bb == Len(blocks) + 2
             body_bb == Len(blocks) + 3
             loop_end_bb == Len(blocks) + 4
             bsi == Emit(blocks, cur, ri.ins)
             ni == [Here EXCEPT !.nstmts = nstmts + 1, !.blocks = bsi,
                                !.ev = [op |-> "for"]]
             bs0 == Emit(bsi, cur, <<Br(cond_bb)>>)
                      \o <<NewBlock(func), NewBlock(""), NewBlock(""), NewBlock("")>>
             M0 == Inserted(fns, func, cond_bb)
         IN
         IF Died(ri) THEN Set(Crash(ni))
         ELSE IF Threw(ri) THEN Set(Throw(ni, ri.err, ri.pos))
         ELSE \E rc \in LoweredOpt(c, Top.scope, fns, slots) :
           LET bs1 == Emit(bs0, cond_bb, rc.ins)
               n == [ni EXCEPT !.blocks = bs1, !.fns = M0, !.cur = cond_bb]
           IN
           IF Died(rc) THEN Set(Crash(n))
           ELSE IF Threw(rc) THEN Set(Throw(n, rc.err, rc.pos))
           ELSE Set([n EXCEPT
                  !.blocks = InsertBlock(
                               Emit(bs1, cond_bb, ForCondInstrs(c, rc.ty, body_bb, loop_end_bb)),
                               body_bb, func),
                  !.fns = Inserted(M0, func, body_bb),
                  !.cur = body_bb,
                  !.frames = frames \o <<ForFrame(func, cond_bb, loop_bb, loop_end_bb),
                                         BodyFrame(Top, loop_end_bb, loop_bb)>>])

\* After the body of a for: the increment block, which branches to the
\* condition block, then loop_end_bb.
EndForBody(Incs) ==
  /\ AtEndOf("for")
  /\ \E e \in Incs :
       LET fr == frames[Len(frames) - 1]
           outer == Leave(frames, 2)
           bs1 == InsertBlock(BrIfOpen(blocks, cur, fr.continue_bb), fr.continue_bb, fr.func)
           M1 == Inserted(fns, fr.func, fr.continue_bb)
       IN
       \E r \in LoweredOpt(e, outer[Len(outer)].scope, fns, slots) :
         LET bs2 == Emit(bs1, fr.continue_bb, r.ins)
             n == [Here EXCEPT !.blocks = bs2, !.fns = M1, !.cur = fr.continue_bb,
                               !.ev = [op |-> "end_for", inner |-> Top.scope,
                                       outer |-> frames[Len(frames) - 2].scope,
                                       stopped |-> Top.stop]]
         IN
         IF Died(r) THEN Set(Crash(n))
         ELSE IF Threw(r) THEN Set(Throw(n, r.err, r.pos))
         ELSE Set(Returned([n EXCEPT !.fns = Inserted(M1, fr.func, fr.loop_end_bb)],
                           outer,
                           InsertBlock(Emit(bs2, fr.continue_bb, <<Br(fr.cond_bb)>>),
                                       fr.loop_end_bb, fr.func),
                           fr.loop_end_bb))

----------------------------------------------------------------------------
(* top_level_visitor::operator()(const ast::function_define&), from the    *)
(* return of the body's codegen_statement to the end.                      *)

\* The terminator synthesized when the body left its last block open.
SynthReturn(ff, fty, open) ==
  IF open /\ ff.ret # "void" THEN <<Store(ff.retvar, fty), Br(ff.end_bb)>>
  ELSE IF open /\ ff.ret = "void" THEN <<Br(ff.end_bb)>>
  ELSE <<>>

\* The contents of the exit block.
ExitInstrs(retvar) ==
  IF retvar # 0 THEN <<Load(retvar), Ret(retvar)>> ELSE <<Ret(0)>>

\* llvm::verifyFunction: what the structural verifier accepts of an
\* instruction and of a block.
InstrOk(M, bs, S, func, i) ==
  CASE i.op = "store"  -> i.slot # 0 /\ i.ty = S[i.slot]
    [] i.op = "br"     -> bs[i.to].parent = func
    [] i.op = "condbr" -> bs[i.to].parent = func /\ bs[i.else_to].parent = func
    [] i.op = "ret"    -> IF i.slot = 0 THEN M[func].ret = "void"
                          ELSE S[i.slot] = M[func].ret
    [] i.op \in {"add", "sub", "mul", "sdiv", "udiv", "srem", "urem", "icmp"} ->
                          i.lty = i.rty
    [] OTHER           -> TRUE

BlockOk(M, bs, S, func, b) ==
  /\ HasTerminator(bs, b)
  /\ \A j \in 1..Len(bs[b].ins) :
       /\ InstrOk(M, bs, S, func, bs[b].ins[j])
       /\ IsTerminator(bs[b].ins[j]) => j = Len(bs[b].ins)

verifyFunction(M, bs, S, func) ==
  \A j \in 1..Len(M[func].blocks) : BlockOk(M, bs, S, func, M[func].blocks[j])

\* func->eraseFromParent().
eraseFromParent(M, func) == [n \in DOMAIN M \ {func} |-> M[n]]

\* A variant that runs the pipeline over every function of the module.
RunPasses_WholeModule(M, func) ==
  [n \in DOMAIN M |-> [M[n] EXCEPT !.fpm_runs = @ + 1]]

\* fpm.run on the function.
RunPasses(M, func) == [M EXCEPT ![func].fpm_runs = @ + 1]

EndFunctionBody ==
  /\ AtEndOf("func")
  /\ LET ff == frames[Len(frames) - 1]
         func == ff.name
         bs1 == Emit(blocks, cur,
                     SynthReturn(ff, fns[func].ret, ~HasTerminator(blocks, cur)))
         bs2 == Emit(InsertBlock(bs1, ff.end_bb, func), ff.end_bb, ExitInstrs(ff.retvar))
         M1 == Inserted(fns, func, ff.end_bb)
         n == [Here EXCEPT !.blocks = bs2, !.cur = ff.end_bb, !.frames = <<>>,
                           !.ev = [op |-> "end_function", func |-> func,
                                   inner |-> Top.scope, stopped |-> Top.stop]]
     IN
     IF verifyFunction(M1, bs2, slots, func)
       THEN Set([n EXCEPT !.pc = "top", !.fns = RunPasses(M1, func)])
       ELSE Set(Throw([n EXCEPT !.fns = eraseFromParent(M1, func)], E_Verify, 0))

----------------------------------------------------------------------------
(* The initial state of the lowering: an empty module.                     *)

NoDriver == [state |-> "none"]

InitLowering(items, stmts) ==
  /\ lim = [items |-> items, stmts |-> stmts]
  /\ pc = "top"
  /\ err = ""
  /\ errpos = 0
  /\ fns = [n \in {} |-> 0]
  /\ blocks = <<>>
  /\ cur = 0
  /\ slots = <<>>
  /\ frames = <<>>
  /\ nitems = 0
  /\ nstmts = 0
  /\ ev = [op |-> "init"]

----------------------------------------------------------------------------
(* Control flow: functions whose bodies mix return, if/else, the three     *)
(* loops, break, continue and nested blocks.                               *)

CFDefs ==
  {Decl("f", <<>>, "i32"), Decl("g", <<>>, "void")}

CFReturns == {NoExpr, Lit(1)}

CFConds == {BoolLit(TRUE)}

CFForParts == {NoExpr, BoolLit(TRUE)}

InitCF == InitLowering(MaxItems, MaxStmts) /\ drv = NoDriver

NextCF ==
  \/ DefineBegin(CFDefs)
  \/ ReturnStmt(CFReturns)
  \/ BreakStmt
  \/ ContinueStmt
  \/ CompoundStmt
  \/ EndCompound
  \/ IfStmt(CFConds, BOOLEAN)
  \/ EndThen
  \/ EndElse
  \/ LoopStmt
  \/ EndLoopBody
  \/ WhileStmt(CFConds)
  \/ EndWhileBody
  \/ ForStmt({NoExpr}, CFForParts)
  \/ EndForBody({NoExpr})
  \/ EndFunctionBody

SpecCF == InitCF /\ [][NextCF]_vars

----------------------------------------------------------------------------
(* The control-flow graph of a function.                                   *)

BlocksOf(func) == {fns[func].blocks[j] : j \in 1..Len(fns[func].blocks)}

Successors(b) ==
  UNION {IF i.op = "br" THEN {i.to}
         ELSE IF i.op = "condbr" THEN {i.to, i.else_to}
         ELSE {} : i \in {blocks[b].ins[j] : j \in 1..Len(blocks[b].ins)}}

RECURSIVE ReachableFrom(_)
ReachableFrom(seen) ==
  LET more == seen \cup UNION {Successors(b) : b \in seen} IN
  IF more = seen THEN seen ELSE ReachableFrom(more)

HoldsRet(b) == \E j \in 1..Len(blocks[b].ins) : blocks[b].ins[j].op = "ret"

\* The functions that have been lowered with a body, and are in the module.
Lowered_Functions == {f \in DOMAIN fns : pc = "top" /\ fns[f].bodies > 0}

EntryOf(func) == fns[func].blocks[1]

ExitOf(func) == fns[func].blocks[Len(fns[func].blocks)]

\* Every path from the entry is closed by terminators and can only end in
\* the exit block, which loads the return slot and returns it; no other
\* block of the function returns.
SingleExit(func) ==
  /\ \A b \in ReachableFrom({EntryOf(func)}) :
       /\ b \in BlocksOf(func)
       /\ HasTerminator(blocks, b)
       /\ HoldsRet(b) => b = ExitOf(func)
  /\ \A b \in BlocksOf(func) : HoldsRet(b) => b = ExitOf(func)
  /\ Len(blocks[ExitOf(func)].ins) = 2
  /\ blocks[ExitOf(func)].ins[1].op = "load"
  /\ blocks[ExitOf(func)].ins[2] = Ret(blocks[ExitOf(func)].ins[1].slot)

\* C1: every successfully lowered non-void function has one exit block that
\* every path from the entry ends in, and it is the only block holding a
\* return instruction.
C1_SingleExitBlock ==
  \A f \in Lowered_Functions : fns[f].ret # "void" => SingleExit(f)

----------------------------------------------------------------------------
(* Jumps: break and continue inside and outside loops, in function bodies, *)
(* if arms and nested blocks.                                              *)

InitJump == InitLowering(MaxItems, MaxStmts) /\ drv = NoDriver

NextJump ==
  \/ DefineBegin(CFDefs)
  \/ ReturnStmt(CFReturns)
  \/ BreakStmt
  \/ ContinueStmt
  \/ CompoundStmt
  \/ EndCompound
  \/ IfStmt(CFConds, BOOLEAN)
  \/ EndThen
  \/ EndElse
  \/ LoopStmt
  \/ EndLoopBody
  \/ EndFunctionBody

SpecJump == InitJump /\ [][NextJump]_vars

LoopKinds == {"loop", "while", "for"}

\* No loop statement is being lowered around the current statement.
OutsideAnyLoop == \A i \in 1..Len(frames) : frames[i].k \notin LoopKinds

\* The step lowers a break or a continue statement.
JumpStep == nstmts' = nstmts + 1 /\ ev'.op \in {"break", "continue"}

\* The statement loop of the current block goes on to the next statement.
LoopGoesOn ==
  /\ pc = "body"
  /\ Len(frames) > 0
  /\ Top.k = "cs"
  /\ ~Top.stop

\* C6: a break or continue lowered while no loop encloses it inserts no
\* branch (no instruction at all), raises no error, leaves the current block
\* without a terminator, and the statement loop of the block goes on.
C6_JumpOutsideLoop ==
  [][(JumpStep /\ OutsideAnyLoop) =>
       /\ blocks' = blocks
       /\ cur' = cur
       /\ ~HasTerminator(blocks', cur')
       /\ err' = ""
       /\ LoopGoesOn']_vars

\* A break was lowered inside an if arm or a nested block outside any loop,
\* and the lowering is back in the statement loop with the block open.
C6_Witness ==
  /\ ev.op \in {"break", "continue"}
  /\ ev.target = 0
  /\ OutsideAnyLoop
  /\ Len(frames) > 2
  /\ LoopGoesOn
  /\ ~HasTerminator(blocks, cur)

----------------------------------------------------------------------------
(* Scopes: variable definitions and assignments in a function body, in     *)
(* nested blocks, if arms and loop bodies.                                 *)

ScopeDefs == {Decl("f", <<Param("a", "i32", "mutable")>>, "void")}

ScopeExprs == {Bin("=", Var("a"), Lit(2)), Bin("=", Var("x"), Lit(2)), Var("x")}

InitScope == InitLowering(MaxItems, MaxStmts) /\ drv = NoDriver

NextScope ==
  \/ DefineBegin(ScopeDefs)
  \/ VarDefStmt({"a", "x"}, {"i32"}, {"", "mutable"}, {NoExpr, Lit(1)})
  \/ ExprStmt(ScopeExprs)
  \/ CompoundStmt
  \/ EndCompound
  \/ IfStmt(CFConds, BOOLEAN)
  \/ EndThen
  \/ EndElse
  \/ LoopStmt
  \/ EndLoopBody
  \/ EndFunctionBody

SpecScope == InitScope /\ [][NextScope]_vars

\* The step lowers a variable definition.
VarDefStep == nstmts' = nstmts + 1 /\ ev'.op = "vardef"

BlockEnds == {"end_compound", "end_then", "end_else", "end_loop", "end_while", "end_for"}

\* The last thing lowered was the end of a nested block, and `name` was
\* first defined inside that block.
DefinedInEndedBlock(name) ==
  /\ ev.op \in BlockEnds
  /\ name \in DOMAIN ev.inner
  /\ name \notin DOMAIN ev.outer

\* The lowering of the statement returned normally.
StatementSucceeded == pc = "body" /\ err = ""

\* C2: a variable definition whose name is registered in the active scope
\* fails with a redefinition error; one that reuses a name first defined
\* inside a nested block succeeds once that block has ended.
C2_Redefinition ==
  [][VarDefStep =>
       /\ exists(Top.scope, ev'.name) =>
            pc' = "error" /\ err' = E_Redefinition /\ slots' = slots
       /\ (DefinedInEndedBlock(ev'.name) /\ typename_to_type(ev'.type, FALSE).ok) =>
            /\ StatementSucceeded'
            /\ exists(Top.scope', ev'.name)
            /\ Top.scope'[ev'.name].inst = Len(slots')]_vars

\* The name x, defined in a nested block that has ended, has just been
\* defined again in the enclosing block.
C2_Witness ==
  /\ ev.op = "vardef"
  /\ ev.name = "x"
  /\ ~exists(ev.scope, "x")
  /\ StatementSucceeded
  /\ exists(Top.scope, "x")
  /\ Len(slots) = 3

IsPrefix(s, t) == Len(s) <= Len(t) /\ SubSeq(t, 1, Len(s)) = s

\* C9: lowering a nested block leaves the table of every enclosing scope as
\* it was, so a name first defined inside is unknown after the block, while
\* the instructions emitted inside (stores to slots of enclosing variables
\* included) stay in the emitted code.
C9_EnclosingScopeUntouched ==
  [][pc' = "body" =>
       /\ \A i \in 1..(Len(frames) - 1) :
            (i <= Len(frames') /\ frames[i].k = "cs") =>
               /\ frames'[i].k = "cs"
               /\ frames'[i].scope = frames[i].scope
       /\ ev'.op \in BlockEnds =>
            /\ Top.scope' = ev'.outer
            /\ \A name \in DOMAIN ev'.inner \ DOMAIN ev'.outer : ~exists(Top.scope', name)
       /\ \A b \in 1..Len(blocks) : IsPrefix(blocks[b].ins, blocks'[b].ins)]_vars

\* A nested block that defined x and stored to the enclosing variable a has
\* ended: x is gone from the table, the store is in the code.
C9_Witness ==
  /\ ev.op = "end_compound"
  /\ pc = "body"
  /\ exists(ev.inner, "x")
  /\ ~exists(Top.scope, "x")
  /\ exists(Top.scope, "a")
  /\ \E j \in 2..Len(blocks[cur].ins) :
       blocks[cur].ins[j] = Store(Top.scope["a"].inst, "i32")

----------------------------------------------------------------------------
(* Expressions: assignments to parameters and locals, and calls.           *)

\* The callees: two named parameters, and one named parameter then "...".
ExprDecls ==
  {Decl("g2", <<Param("p", "i32", ""), Param("q", "bool", "")>>, "void"),
   Decl("v", <<Param("p", "i32", ""), VarargMarker("")>>, "void")}

\* The function whose body is lowered: a mutable and an immutable parameter.
ExprDefs ==
  {Decl("f", <<Param("m", "i32", "mutable"), Param("c", "i32", "")>>, "void")}

\* Right-hand sides: an i32, an unknown variable, a boolean (i8).
ExprValues == {Lit(1), Var("z"), BoolLit(TRUE)}

ExprAssigns ==
  {Bin(op, Var(n), r) : op \in {"=", "+=", "/=", "%="}, n \in {"m", "c", "x", "z"},
                         r \in ExprValues}
    \cup {Bin("=", Lit(1), Lit(2)), Bin("-=", Var("m"), Lit(1)), Bin("*=", Var("c"), Lit(1)),
          Bin("*=", Var("m"), Lit(1))}

ExprArgLists ==
  {<<>>} \cup {<<x>> : x \in ExprValues}
         \cup {<<x, y>> : x \in ExprValues, y \in ExprValues}

ExprCalls ==
  {Call(g, args) : g \in {"g2", "v", "h"}, args \in ExprArgLists}
    \cup {Call("g2", <<Bin("=", Var("m"), Lit(1))>>),
          Call("g2", <<Lit(1), BoolLit(TRUE), Lit(1)>>)}

InitExpr == InitLowering(MaxItems, MaxExprStmts) /\ drv = NoDriver

NextExpr ==
  \/ DeclareItem(ExprDecls)
  \/ DefineBegin(ExprDefs)
  \/ VarDefStmt({"x"}, {"i32", "u32"}, {"", "mutable"}, {NoExpr})
  \/ ExprStmt(ExprAssigns \cup ExprCalls)
  \/ EndFunctionBody

SpecExpr == InitExpr /\ [][NextExpr]_vars

\* The step lowers an expression statement.
ExprStep == nstmts' = nstmts + 1 /\ ev'.op = "expr"

\* The instructions the step appended to the insert block.
Emitted == SubSeq(blocks'[cur].ins, Len(blocks[cur].ins) + 1, Len(blocks'[cur].ins))

EmittedOps == {Emitted[j].op : j \in 1..Len(Emitted)}

StoresTo(slot) == \E j \in 1..Len(Emitted) : Emitted[j].op = "store" /\ Emitted[j].slot = slot

\* e is an assignment form whose left operand names a binding of the scope.
AssignsBinding(e, scope) ==
  /\ e.k = "bin"
  /\ e.op \in AssignOps
  /\ e.lhs.k = "var"
  /\ exists(scope, e.lhs.name)

\* The right-hand side of e lowers to a value, of type ty.
RhsHasType(e, scope, ty) ==
  \A r \in Lowered(e.rhs, scope, fns, slots) : r.err = "" /\ r.ty = ty

RhsLowers(e, scope) ==
  \A r \in Lowered(e.rhs, scope, fns, slots) : r.err = ""

\* C3 as stated: an assignment form to an immutable binding fails with the
\* read-only error and emits no store to its slot; to a mutable binding with
\* a right-hand side of the matching type it succeeds.
C3_AsStated ==
  [][(ExprStep /\ AssignsBinding(ev'.e, Top.scope)) =>
       LET info == Top.scope[ev'.e.lhs.name] IN
       /\ ~info.is_mutable =>
            pc' = "error" /\ err' = E_ReadOnly /\ ~StoresTo(info.inst)
       /\ (info.is_mutable /\ RhsHasType(ev'.e, Top.scope, slots[info.inst])) =>
            StatementSucceeded']_vars

\* C3, amended: an assignment form to an immutable binding fails and emits
\* no store to its slot, with the read-only error when its right-hand side
\* lowers without error (otherwise with the error of the right-hand side);
\* to a mutable binding with a right-hand side of the matching type it
\* succeeds and stores to the slot.
C3_Assignment ==
  [][(ExprStep /\ AssignsBinding(ev'.e, Top.scope)) =>
       LET info == Top.scope[ev'.e.lhs.name] IN
       /\ ~info.is_mutable =>
            /\ pc' = "error"
            /\ ~StoresTo(info.inst)
            /\ RhsLowers(ev'.e, Top.scope) => err' = E_ReadOnly
            /\ ~RhsLowers(ev'.e, Top.scope) =>
                 err' \in {r.err : r \in Lowered(ev'.e.rhs, Top.scope, fns, slots)}
       /\ (info.is_mutable /\ RhsHasType(ev'.e, Top.scope, slots[info.inst])) =>
            StatementSucceeded' /\ StoresTo(info.inst)]_vars

\* An assignment to the immutable parameter c, its right-hand side a
\* literal, was rejected with the read-only error.
C3_Witness ==
  /\ ev.op = "expr"
  /\ AssignsBinding(ev.e, ev.scope)
  /\ ~ev.scope[ev.e.lhs.name].is_mutable
  /\ ev.e.rhs = Lit(1)
  /\ pc = "error"
  /\ err = E_ReadOnly

DivRemOps == {"/=", "%="}

\* C4: for /= and %= the operator emitted follows the recorded signedness of
\* the target binding alone: signed gets sdiv/srem and never udiv/urem,
\* unsigned gets udiv/urem and never sdiv/srem.
C4_DivRemFamily ==
  [][(ExprStep /\ AssignsBinding(ev'.e, Top.scope) /\ ev'.e.op \in DivRemOps
        /\ StatementSucceeded') =>
       LET info == Top.scope[ev'.e.lhs.name]
           signed == IF ev'.e.op = "/=" THEN "sdiv" ELSE "srem"
           unsigned == IF ev'.e.op = "/=" THEN "udiv" ELSE "urem"
       IN
       IF info.is_signed
         THEN signed \in EmittedOps /\ EmittedOps \cap {"udiv", "urem"} = {}
         ELSE unsigned \in EmittedOps /\ EmittedOps \cap {"sdiv", "srem"} = {}]_vars

\* x, defined as a mutable i32 (recorded signed), was divided in place, and
\* the last arithmetic instruction of the block is the signed division.
C4_Witness ==
  /\ ev.op = "expr"
  /\ AssignsBinding(ev.e, ev.scope)
  /\ ev.e.op = "/="
  /\ ev.scope[ev.e.lhs.name].is_signed
  /\ StatementSucceeded
  /\ blocks[cur].ins[Len(blocks[cur].ins) - 2].op = "sdiv"

\* e is a call of a function of the module.
CallsKnown(e) == e.k = "call" /\ e.callee \in DOMAIN fns

\* C5: a call to a non-variadic callee with a wrong number of arguments
\* fails with the arity error before any argument is lowered: the step
\* emits no instruction.
C5_ArityBeforeArguments ==
  [][(ExprStep /\ CallsKnown(ev'.e) /\ ~fns[ev'.e.callee].vararg
        /\ Len(ev'.e.args) # Len(fns[ev'.e.callee].ptypes)) =>
       /\ pc' = "error"
       /\ err' = E_Arity
       /\ blocks' = blocks]_vars

\* g2, of two parameters, was called with one argument, an assignment to m,
\* and the arity error was raised.
C5_Witness ==
  /\ ev.op = "expr"
  /\ ev.e = Call("g2", <<Bin("=", Var("m"), Lit(1))>>)
  /\ "g2" \in DOMAIN fns
  /\ err = E_Arity

\* The types of the arguments args lower to.
ArgTypes(args, scope) ==
  [i \in 1..Len(args) |-> LowerExpr(args[i], scope, fns, slots, "crash").ty]

ArgsLower(args, scope) ==
  \A i \in 1..Len(args) : LowerExpr(args[i], scope, fns, slots, "crash").err = ""

\* The 1-based positions at which an argument's type differs from the
\* parameter's.
Mismatches(e, scope) ==
  {i \in 1..Len(fns[e.callee].ptypes) :
     ArgTypes(e.args, scope)[i] # fns[e.callee].ptypes[i]}

Least(S) == CHOOSE i \in S : \A j \in S : i <= j

\* C7: in a call whose arguments all lower, the first argument whose type
\* differs from the parameter's makes the call fail with an error naming
\* that argument's 1-based position.
C7_MismatchPosition ==
  [][(ExprStep /\ CallsKnown(ev'.e)
        /\ Len(ev'.e.args) >= Len(fns[ev'.e.callee].ptypes)
        /\ ~ArityError(fns[ev'.e.callee], Len(ev'.e.args))
        /\ ArgsLower(ev'.e.args, Top.scope)
        /\ Mismatches(ev'.e, Top.scope) # {}) =>
       /\ pc' = "error"
       /\ err' = E_ArgType
       /\ errpos' = Least(Mismatches(ev'.e, Top.scope))]_vars

----------------------------------------------------------------------------
(* Declarations: parameter lists of named parameters and "..." markers.    *)

ParamKinds == {"named", "marker", "marker_untyped"}

ParamNames == <<"p1", "p2", "p3", "p4">>

ParamOfKind(kind, i) ==
  CASE kind = "named"  -> Param(ParamNames[i], "i32", "")
    [] kind = "marker" -> VarargMarker("i32")
    [] OTHER           -> VarargMarker("")

ParamLists ==
  UNION {{[i \in 1..n |-> ParamOfKind(kinds[i], i)] : kinds \in [1..n -> ParamKinds]}
           : n \in 0..MaxParams}

DeclDecls == {Decl("h", ps, "i32") : ps \in ParamLists}

InitDecl == InitLowering(MaxItems, MaxStmts) /\ drv = NoDriver

NextDecl == DeclareItem(DeclDecls)

SpecDecl == InitDecl /\ [][NextDecl]_vars

\* The step lowers a function declaration.
DeclareStep == nitems' = nitems + 1 /\ ev'.op = "declare"

Markers(ps) == {i \in 1..Len(ps) : ps[i].is_vararg}

\* A marker of ps is followed by a named parameter.
MarkerBeforeNamed(ps) ==
  \E i \in Markers(ps) : \E j \in (i + 1)..Len(ps) : ~ps[j].is_vararg

\* The step added a variadic function to the module.
AcceptedVariadic ==
  /\ pc' = "top"
  /\ \E n \in DOMAIN fns' \ DOMAIN fns : fns'[n].vararg

\* C8: a declaration fails when its parameter list holds more than one
\* variadic marker, and when a marker is followed by a named parameter; it
\* is accepted as variadic only when its single marker is the final
\* parameter.
C8_VarargValidation ==
  [][DeclareStep =>
       LET ps == ev'.node.params IN
       /\ Cardinality(Markers(ps)) > 1 => pc' = "error" /\ fns' = fns
       /\ MarkerBeforeNamed(ps) => pc' = "error" /\ fns' = fns
       /\ AcceptedVariadic => Markers(ps) = {Len(ps)}]_vars

----------------------------------------------------------------------------
(* The driver: CodeGenerator. Its state is                                 *)
(*   state        "live", "failed" (the constructor threw) or "dead" (the  *)
(*                process was ended by abort or by a fault)                *)
(*   ndebug       whether the build defines NDEBUG                         *)
(*   opt_level    the optimization level the constructor was given         *)
(*   log          the calls of createTopLevel and verifyModule made, in    *)
(*                order: [unit, item, ok], item 0 being verifyModule       *)
(*   results      per translation unit, whether the unique_ptr still owns  *)
(*                its module ("owned") or was moved from ("moved")         *)
(*   context      the same for the LLVMContext                             *)
(*   jit_compiled the member the guard of doJIT reads                      *)
(*   jit_created, linked, main_calls                                       *)
(*                how often JitCompiler::create, linkModules and main were *)
(*                reached                                                  *)
(*   moved_uses   how often a moved-from module was dereferenced           *)
(*   paths        created_files of the last emit call; returned holds it   *)
(*                when the call returned                                   *)
(*   error, kind  the message and the class of the last exception thrown   *)
(*   nops, last   the operations invoked so far and the last one           *)

E_OptLevel == "invalid optimization level"
E_Lowering == "lowering failed"
E_VerifyModule == "verifyModule"
E_Open     == "cannot open output file"
E_EmitFile == "failed to emit a file"
E_JitCreate == "JitCompiler::create failed"
E_Link     == "Could not link"
E_AddModule == "addModule failed"
E_NoMain   == "symbol main could not be found"
E_Abort    == "assertion failed"

\* The class of every exception the driver throws.
CodegenError == "CodegenError"

\* verifyOptLevel: the message thrown, "" when none.
verifyOptLevel(opt_level) == IF opt_level \in 0..3 THEN "" ELSE E_OptLevel

\* A translation unit as the driver sees it: what createTopLevel does on
\* each of its top-level items ("ok" or "throws") and whether verifyModule
\* accepts the module.
Unit(items, verifies) == [items |-> items, verifies |-> verifies]

\* A variant that goes on to the next item after one has thrown.
RECURSIVE codegen_KeepGoing(_, _, _, _)
codegen_KeepGoing(unit, u, j, log) ==
  IF j > Len(unit.items)
    THEN [err |-> IF unit.verifies THEN "" ELSE E_VerifyModule,
          log |-> Append(log, [unit |-> u, item |-> 0, ok |-> unit.verifies])]
  ELSE codegen_KeepGoing(unit, u, j + 1,
         Append(log, [unit |-> u, item |-> j, ok |-> unit.items[j] = "ok"]))

\* CodeGenerator::codegen on unit u: the loop over the items, j the next
\* one, then verifyModule. [err, log].
RECURSIVE codegen(_, _, _, _)
codegen(unit, u, j, log) ==
  IF j > Len(unit.items)
    THEN [err |-> IF unit.verifies THEN "" ELSE E_VerifyModule,
          log |-> Append(log, [unit |-> u, item |-> 0, ok |-> unit.verifies])]
  ELSE IF unit.items[j] = "throws"
    THEN [err |-> E_Lowering, log |-> Append(log, [unit |-> u, item |-> j, ok |-> FALSE])]
  ELSE codegen(unit, u, j + 1, Append(log, [unit |-> u, item |-> j, ok |-> TRUE]))

\* The loop of the constructor over the parse results, i the next one:
\* [err, log, results].
RECURSIVE ConstructLoop(_, _, _, _)
ConstructLoop(units, i, opt_level, acc) ==
  IF i > Len(units) THEN acc
  ELSE IF verifyOptLevel(opt_level) # "" THEN [acc EXCEPT !.err = verifyOptLevel(opt_level)]
  ELSE LET c == codegen(units[i], i, 1, acc.log) IN
    IF c.err # "" THEN [acc EXCEPT !.err = c.err, !.log = c.log]
    ELSE ConstructLoop(units, i + 1, opt_level,
                       [acc EXCEPT !.log = c.log, !.results = Append(@, "owned")])

NewGenerator(ndebug, opt_level) ==
  [state |-> "live", ndebug |-> ndebug, opt_level |-> opt_level, log |-> <<>>,
   results |-> <<>>,
   context |-> "owned", jit_compiled |-> FALSE,
   jit_created |-> 0, linked |-> 0, main_calls |-> 0, moved_uses |-> 0,
   paths |-> <<>>, returned |-> <<>>,
   error |-> "", kind |-> "", nops |-> 0, last |-> "CodeGenerator"]

ItemLists == UNION {[1..n -> {"ok", "throws"}] : n \in 0..MaxUnitItems}

UnitKinds == {Unit(items, verifies) : items \in ItemLists, verifies \in BOOLEAN}

UnitLists == UNION {[1..n -> UnitKinds] : n \in 0..MaxUnits}

\* What the constructor leaves: the instance, or nothing but the exception.
Constructed(units, opt_level, ndebug) ==
  LET c == ConstructLoop(units, 1, opt_level, [err |-> "", log |-> <<>>, results |-> <<>>])
      g == [NewGenerator(ndebug, opt_level) EXCEPT !.log = c.log]
  IN IF c.err # ""
       THEN [g EXCEPT !.state = "failed", !.error = c.err, !.kind = CodegenError]
       ELSE [g EXCEPT !.results = c.results]

CodeGenerator ==
  /\ drv.state = "none"
  /\ \E units \in UnitLists, opt_level \in 0..4, ndebug \in BOOLEAN :
       drv' = Constructed(units, opt_level, ndebug)
  /\ UNCHANGED lowering

\* An operation may be invoked on the instance.
Invocable == drv.state = "live" /\ drv.nops < MaxDriverOps

Invoked(d, name) ==
  [d EXCEPT !.nops = @ + 1, !.last = name, !.error = "", !.kind = "",
            !.paths = <<>>, !.returned = <<>>]

\* "throw CodegenError{...}".
Throws(d, msg) == [d EXCEPT !.error = msg, !.kind = CodegenError]

\* The output path pushed onto created_files for result i.
OutputPath(i, ext, tmp) == [unit |-> i, ext |-> ext, tmp |-> tmp]

\* A variant that stops after the first result.
EmitLoop_FirstOnly(d, i, ext, tmp, open_fails, passes_fail, fault) ==
  IF i > Len(d.results) \/ i > 1 THEN [d EXCEPT !.returned = d.paths]
  ELSE [d EXCEPT !.paths = <<OutputPath(i, ext, tmp)>>,
                 !.returned = <<OutputPath(i, ext, tmp)>>]

\* The loops of emitLlvmIRFiles and emitFiles: results i.. are still to be
\* written; open_fails is the index of the file that cannot be opened (0:
\* none), passes_fail whether addPassesToEmitFile reports failure, fault
\* whether the use of a moved-from module ends the process.
RECURSIVE EmitLoop(_, _, _, _, _, _, _)
EmitLoop(d, i, ext, tmp, open_fails, passes_fail, fault) ==
  IF i > Len(d.results) THEN [d EXCEPT !.returned = d.paths]
  ELSE LET d1 == [d EXCEPT !.paths = Append(@, OutputPath(i, ext, tmp))]
           d2 == IF d.results[i] = "moved" THEN [d1 EXCEPT !.moved_uses = @ + 1] ELSE d1
       IN
    IF open_fails = i THEN Throws(d1, E_Open)
    ELSE IF passes_fail THEN Throws(d1, E_EmitFile)
    ELSE IF d.results[i] = "moved" /\ fault THEN [d2 EXCEPT !.state = "dead"]
    ELSE EmitLoop(d2, i + 1, ext, tmp, open_fails, passes_fail, fault)

emitLlvmIRFiles ==
  /\ Invocable
  /\ \E open_fails \in 0..Len(drv.results), fault \in BOOLEAN :
       drv' = EmitLoop(Invoked(drv, "emitLlvmIRFiles"), 1, "ll", FALSE,
                       open_fails, FALSE, fault)
  /\ UNCHANGED lowering

emitFiles(name, ext, tmp) ==
  /\ Invocable
  /\ \E open_fails \in 0..Len(drv.results), passes_fail \in BOOLEAN, fault \in BOOLEAN :
       drv' = EmitLoop(Invoked(drv, name), 1, ext, tmp, open_fails, passes_fail, fault)
  /\ UNCHANGED lowering

emitAssemblyFiles == emitFiles("emitAssemblyFiles", "s", FALSE)

emitObjectFiles == emitFiles("emitObjectFiles", "o", FALSE)

emitTemporaryObjectFiles == emitFiles("emitTemporaryObjectFiles", "o", TRUE)

\* What the environment makes fail in a run of doJIT.
JitFailures == {"none", "create", "link", "add", "lookup"}

\* "assert(!jit_compiled)": the macro expands to nothing under NDEBUG.
AssertStops(d) == d.jit_compiled /\ ~d.ndebug

\* The loop that links results[i..] into the front module. Using a
\* moved-from (null) module is undefined: with `fault` the process ends
\* there, without it the call goes on.
RECURSIVE LinkLoop(_, _, _, _, _)
LinkLoop(d, i, front, fail, fault) ==
  IF i > Len(d.results) THEN d
  ELSE LET module == d.results[i]
           null == front = "moved" \/ module = "moved"
           d1 == [d EXCEPT !.results[i] = "moved", !.linked = @ + 1,
                           !.moved_uses = IF null THEN @ + 1 ELSE @]
       IN
    IF null /\ fault THEN [d1 EXCEPT !.state = "dead"]
    ELSE IF fail = "link" THEN Throws(d1, E_Link)
    ELSE LinkLoop(d1, i + 1, front, fail, fault)

\* doJIT after the guard.
JitRun(d, fail, fault) ==
  LET created == [d EXCEPT !.jit_compiled = TRUE, !.jit_created = @ + 1]
      front == IF d.results = <<>> THEN "moved" ELSE d.results[1]
      taken == IF d.results = <<>> THEN created
               ELSE [created EXCEPT !.results[1] = "moved"]
      linked == LinkLoop(taken, 2, front, fail, fault)
      added == [linked EXCEPT !.context = "moved"]
  IN
  IF fail = "create" THEN Throws(created, E_JitCreate)
  ELSE IF d.results = <<>> /\ fault THEN [created EXCEPT !.state = "dead"]
  ELSE IF linked.state = "dead" \/ linked.error # "" THEN linked
  ELSE IF (front = "moved" \/ d.context = "moved") /\ fault
    THEN [added EXCEPT !.state = "dead"]
  ELSE IF fail = "add" THEN Throws(added, E_AddModule)
  ELSE IF fail = "lookup" THEN Throws(added, E_NoMain)
  ELSE [added EXCEPT !.main_calls = @ + 1]

doJIT ==
  /\ Invocable
  /\ \E fail \in JitFailures, fault \in BOOLEAN :
       LET d == Invoked(drv, "doJIT") IN
       drv' = IF AssertStops(drv) THEN [d EXCEPT !.state = "dead", !.error = E_Abort]
              ELSE JitRun(d, fail, fault)
  /\ UNCHANGED lowering

\* compile::main, the loop over the input files: each file is parsed and
\* handed to a generator of its own, whose constructor lowers it ("ok") or
\* throws std::runtime_error ("throws"); with --jit main returns the value
\* of the first file's program. [ok, value, log, outputs].
RECURSIVE MainLoop(_, _, _, _)
MainLoop(files, i, jit, acc) ==
  IF i > Len(files) THEN acc
  ELSE LET lowered == [acc EXCEPT !.log = Append(@, [unit |-> i, item |-> 0,
                                                      ok |-> files[i] = "ok"])]
       IN
    IF files[i] = "throws" THEN [lowered EXCEPT !.ok = FALSE, !.value = "nullopt"]
    ELSE IF jit THEN [lowered EXCEPT !.value = "jit"]
    ELSE MainLoop(files, i + 1, jit, [lowered EXCEPT !.outputs = @ + 1])

FileLists == UNION {[1..n -> {"ok", "throws"}] : n \in 1..MaxUnits}

main ==
  /\ drv.state = "none"
  /\ \E files \in FileLists, jit \in BOOLEAN :
       LET r == MainLoop(files, 1, jit,
                         [ok |-> TRUE, value |-> "nullopt", log |-> <<>>, outputs |-> 0])
       IN drv' = [state |-> "exited", ok |-> r.ok, value |-> r.value, log |-> r.log,
                  outputs |-> r.outputs, results |-> <<>>]
  /\ UNCHANGED lowering

InitDriver == InitLowering(0, 0) /\ drv = NoDriver

NextDriver ==
  \/ CodeGenerator
  \/ main
  \/ emitLlvmIRFiles
  \/ emitAssemblyFiles
  \/ emitObjectFiles
  \/ emitTemporaryObjectFiles
  \/ doJIT

SpecDriver == InitDriver /\ [][NextDriver]_vars

\* The step is an invocation of doJIT.
JitStep == drv.state = "live" /\ drv'.nops = drv.nops + 1 /\ drv'.last = "doJIT"

\* C10: on one CodeGenerator the JIT runs at most once: an invocation of
\* doJIT after the first is stopped by the jit_compiled guard and reaches
\* neither the creation of the JIT engine, nor the linking, nor main.
C10_JitAtMostOnce ==
  [][(JitStep /\ drv.jit_compiled) =>
       /\ drv'.jit_created = drv.jit_created
       /\ drv'.linked = drv.linked
       /\ drv'.main_calls = drv.main_calls]_vars

\* C11: once doJIT has taken the modules, no operation on the generator
\* dereferences a module that was moved to the JIT.
C11_NoUseAfterHandOff ==
  drv.state \in {"live", "dead"} => drv.moved_uses = 0

\* The step is the construction of the generator.
ConstructStep == drv.state = "none" /\ drv'.state # "none"

\* C12: whatever the number of translation units, a level outside 0..3 is
\* rejected with an error before any unit is lowered, and 0..3 are accepted.
C12_OptLevelChecked ==
  [][ConstructStep =>
       IF drv'.opt_level \in 0..3
         THEN drv'.error # E_OptLevel
         ELSE /\ drv'.state = "failed"
              /\ drv'.error = E_OptLevel
              /\ drv'.log = <<>>]_vars

\* C17: a failure to open an output path is reported as a FileError, a
\* missing main symbol or a JIT engine setup failure as a JITError, and
\* neither as a CodegenError.
C17_ErrorKinds ==
  /\ (drv.state = "live" /\ drv.error = E_Open) => drv.kind = "FileError"
  /\ (drv.state = "live" /\ drv.error \in {E_NoMain, E_JitCreate}) => drv.kind = "JITError"

EmitOps == {"emitLlvmIRFiles", "emitAssemblyFiles", "emitObjectFiles", "emitTemporaryObjectFiles"}

\* The step is a call of an emit operation.
EmitStep == drv.state = "live" /\ drv'.nops = drv.nops + 1 /\ drv'.last \in EmitOps

\* C18: an emit call made before the JIT action leaves the list of results
\* as it was and, when it returns, returns one output path per translation
\* unit, in translation-unit order.
C18_EmissionReadOnly ==
  [][(EmitStep /\ ~drv.jit_compiled) =>
       /\ drv'.results = drv.results
       /\ drv'.context = drv.context
       /\ drv'.state = "live"
       /\ drv'.error = "" =>
            /\ Len(drv'.returned) = Len(drv.results)
            /\ \A i \in 1..Len(drv.results) : drv'.returned[i].unit = i]_vars

\* Two emit calls have been made on a generator of two units; the second
\* returned two paths and both modules are still owned.
C18_Witness ==
  /\ drv.state = "live"
  /\ drv.last \in EmitOps
  /\ drv.nops = 2
  /\ ~drv.jit_compiled
  /\ drv.error = ""
  /\ Len(drv.returned) = 2
  /\ drv.results = <<"owned", "owned">>

\* The calls of the lowering recorded in log stopped at the first failure.
StoppedAtFirstError(log) == \A k \in 1..(Len(log) - 1) : log[k].ok

Failed(log) == log # <<>> /\ ~log[Len(log)].ok

EndFunctionStep == frames # <<>> /\ frames' = <<>> /\ ev'.op = "end_function"

\* C14: the function whose body has just been lowered is verified: when the
\* verifier rejects it, it is removed from the module, the lowering fails
\* with the verifier's error and the pass pipeline has run on nothing;
\* when the verifier accepts it, the pipeline has run once more on that
\* function and on no other function of the module.
C14_VerifyThenOptimize ==
  [][EndFunctionStep =>
       LET func == ev'.func
           accepted == verifyFunction(fns', blocks', slots', func)
       IN
       IF func \in DOMAIN fns'
         THEN /\ pc' # "error"
              /\ err' = ""
              /\ accepted
              /\ func \in DOMAIN fns
              /\ fns'[func].fpm_runs = fns[func].fpm_runs + 1
              /\ \A n \in DOMAIN fns' \ {func} :
                   n \in DOMAIN fns /\ fns'[n].fpm_runs = fns[n].fpm_runs
         ELSE /\ pc' = "error"
              /\ err' = E_Verify
              /\ DOMAIN fns' = DOMAIN fns \ {func}
              /\ \A n \in DOMAIN fns' : fns'[n] = fns[n]]_vars

\* The verifier rejected a function and removed it while another function
\* stays declared in the module, untouched by the pipeline.
C14_Witness ==
  /\ pc = "error"
  /\ err = E_Verify
  /\ ev.op = "end_function"
  /\ ev.func \notin DOMAIN fns
  /\ \E n \in DOMAIN fns : fns[n].fpm_runs = 0

----------------------------------------------------------------------------
(* Type names: declarations, definitions, variable definitions and         *)
(* conversions whose types are a kind the resolver knows (i32) or one it    *)
(* does not (str).                                                         *)

Conv(lhs, as) == [k |-> "conv", lhs |-> lhs, as |-> as]

TypeNames == {"i32", "str"}

TypeDecls == {Decl("h", <<Param("p", t1, "")>>, t2) : t1 \in TypeNames, t2 \in TypeNames}

InitType == InitLowering(MaxItems, MaxExprStmts) /\ drv = NoDriver

NextType ==
  \/ DeclareItem(TypeDecls)
  \/ DefineBegin(TypeDecls)
  \/ VarDefStmt({"x", "y"}, TypeNames, {""}, {NoExpr})
  \/ ExprStmt({Conv(Lit(1), t) : t \in TypeNames})
  \/ ReturnStmt({Lit(1)})
  \/ EndFunctionBody

SpecType == InitType /\ [][NextType]_vars

Unrecognized(type) == ~typename_to_type(type, FALSE).ok

\* The type names a step hands to the resolver.
ResolvedNames(e) ==
  CASE e.op \in {"declare", "define"} ->
         {e.node.params[i].type : i \in 1..Len(e.node.params)} \cup {e.node.ret}
    [] e.op = "vardef" -> {e.type}
    [] e.op = "expr"   -> IF e.e.k = "conv" THEN {e.e.as} ELSE {}
    [] OTHER           -> {}

ResolverStep ==
  /\ ev'.op \in {"declare", "define", "vardef", "expr"}
  /\ nitems' + nstmts' = nitems + nstmts + 1

UndefinedTypeErrors == {E_UndefVarType, E_UndefArgType, E_UndefRetType, E_ConvUnknown}

\* C15: a type name of a kind the resolver does not recognize makes the
\* declaration, definition, variable definition or conversion that names
\* it fail with an undefined-type error: the lowering does not crash and
\* does not go on with the absent type.
C15_AbsentTypeIsAnError ==
  [][(ResolverStep /\ \E t \in ResolvedNames(ev') : Unrecognized(t)) =>
       /\ pc' = "error"
       /\ err' \in UndefinedTypeErrors]_vars

----------------------------------------------------------------------------
(* The error reporter: CGContext::formatError with calcRows (the driver's  *)
(* context) and codegen_common::format_error, over a source text. A text   *)
(* is a sequence of characters, a span is named by the index of its first  *)
(* character; positions.first() is index 1.                                *)

Chars == {"a", "\n"}

\* The loop over the characters from the span's start back to the first
\* character of the text.
RECURSIVE calcRows(_, _, _)
calcRows(text, iter, rows) ==
  LET counted == IF text[iter] = "\n" THEN rows + 1 ELSE rows IN
  IF iter = 1 THEN counted + 1
  ELSE calcRows(text, iter - 1, counted)

\* splitByLine: the lines std::getline reads from the text.
RECURSIVE splitByLine(_, _, _)
splitByLine(text, i, line) ==
  IF i > Len(text) THEN IF line = <<>> THEN <<>> ELSE <<line>>
  ELSE IF text[i] = "\n" THEN <<line>> \o splitByLine(text, i + 1, <<>>)
  ELSE splitByLine(text, i + 1, Append(line, text[i]))

Texts == UNION {[1..n -> Chars] : n \in 1..MaxText}

InitRows ==
  /\ InitLowering(0, 0)
  /\ \E text \in Texts : drv = [state |-> "context", source |-> text, reports |-> <<>>]

\* CGContext::formatError: the message holds the line number and the
\* line's text, source_code.at(rows - 1), which throws std::out_of_range
\* past the last line.
formatError ==
  /\ drv.state = "context"
  /\ Len(drv.reports) < MaxReports
  /\ \E start \in 1..Len(drv.source) :
       LET rows == calcRows(drv.source, start, 0) IN
       drv' = [drv EXCEPT !.reports = Append(@,
                 [by |-> "formatError", start |-> start, rows |-> rows,
                  shown |-> rows <= Len(splitByLine(drv.source, 1, <<>>))])]
  /\ UNCHANGED lowering

\* codegen_common::format_error: the header with the line number is
\* written when the standard output is a terminal.
format_error ==
  /\ drv.state = "context"
  /\ Len(drv.reports) < MaxReports
  /\ \E start \in 1..Len(drv.source), isatty \in BOOLEAN :
       drv' = [drv EXCEPT !.reports = Append(@,
                 [by |-> "format_error", start |-> start,
                  rows |-> calcRows(drv.source, start, 0), shown |-> isatty])]
  /\ UNCHANGED lowering

NextRows == formatError \/ format_error

SpecRows == InitRows /\ [][NextRows]_vars

\* The newline characters of the text strictly before index start.
NewlinesBefore(text, start) == Cardinality({i \in 1..(start - 1) : text[i] = "\n"})

\* C16: the line number the error reporter computes for a span is one more
\* than the number of newline characters strictly before the span's start,
\* also when the span starts at the first character of the text or on a
\* newline character.
C16_LineNumber ==
  drv.state = "context" =>
    \A k \in 1..Len(drv.reports) :
      drv.reports[k].rows = 1 + NewlinesBefore(drv.source, drv.reports[k].start)

----------------------------------------------------------------------------
(* Shadowing.                                                              *)

\* The codegen_statement invocations that enclose the running one.
EnclosingBlocks == {i \in 1..(Len(frames) - 1) : frames[i].k = "cs"}

\* The parameters of the function being lowered.
ParametersOf(fs) ==
  {fns[fs[1].name].argnames[i] : i \in 1..Len(fns[fs[1].name].argnames)}

BoundOutside(name) ==
  \/ \E i \in EnclosingBlocks : name \in DOMAIN frames[i].scope
  \/ name \in ParametersOf(frames)

\* C19: there is no shadowing: a variable definition in a nested block
\* whose name is bound in an enclosing block, or is a parameter of the
\* function, fails with the redefinition error and defines nothing.
C19_NoShadowing ==
  [][(VarDefStep /\ EnclosingBlocks # {} /\ BoundOutside(ev'.name)) =>
       /\ pc' = "error"
       /\ err' = E_Redefinition
       /\ slots' = slots
       /\ blocks' = blocks]_vars

\* The then-block of an if statement is being lowered (the insert block is
\* the target of a conditional branch) and the definition of x in it,
\* a name the function body defined before the if, has failed.
C19_Witness ==
  /\ pc = "error"
  /\ err = E_Redefinition
  /\ ev.op = "vardef"
  /\ ev.name = "x"
  /\ \E b \in 1..Len(blocks) :
       /\ blocks[b].ins # <<>>
       /\ blocks[b].ins[Len(blocks[b].ins)].op = "condbr"
       /\ blocks[b].ins[Len(blocks[b].ins)].to = cur

----------------------------------------------------------------------------
(* The instructions of the assignment forms.                               *)

\* The instructions that combine two values for a compound form.
CombinesOf(op) ==
  CASE op = "+=" -> {"add"}
    [] op = "-=" -> {"sub"}
    [] op = "*=" -> {"mul"}
    [] op = "/=" -> {"sdiv", "udiv"}
    [] op = "%=" -> {"srem", "urem"}
    [] OTHER     -> {}

AllCombines == {"add", "sub", "mul", "sdiv", "udiv", "srem", "urem"}

\* The value of an expression is the value of the last instruction emitted
\* for it.
IsLoadOf(i, slot) == i.op = "load" /\ i.slot = slot

IsStoreTo(i, slot) == i.op = "store" /\ i.slot = slot

\* C20: an assignment form to a mutable variable v that lowers ends with a
\* load of v's slot taken after the only store to that slot, which is the
\* value of the expression; a compound form loads v, combines the loaded
\* value with the right operand by its operator and stores the result, in
\* that order, right before that load; = stores the right operand's value
\* right after it has been lowered, without combining anything.
C20_LoadAfterStore ==
  [][(ExprStep /\ AssignsBinding(ev'.e, Top.scope) /\ StatementSucceeded') =>
       LET E == Emitted
           n == Len(E)
           slot == Top.scope[ev'.e.lhs.name].inst
           stores == {j \in 1..n : IsStoreTo(E[j], slot)}
           rhs == LowerExpr(ev'.e.rhs, Top.scope, fns, slots, "crash")
       IN
       /\ n > 0
       /\ IsLoadOf(E[n], slot)
       /\ Cardinality(stores) = 1
       /\ \A s \in stores :
            IF ev'.e.op = "="
              THEN /\ s = Len(rhs.ins) + 1
                   /\ E[s].ty = rhs.ty
                   /\ EmittedOps \cap AllCombines = {}
              ELSE /\ s = n - 1
                   /\ s = Len(rhs.ins) + 3
                   /\ IsLoadOf(E[s - 2], slot)
                   /\ E[s - 1].op \in CombinesOf(ev'.e.op)
                   /\ E[s - 1].lty = slots[slot]
                   /\ E[s - 1].rty = rhs.ty
                   /\ E[s].ty = slots[slot]]_vars

\* m -= 1 has been lowered: load, sub, store, load.
C20_Witness ==
  /\ ev.op = "expr"
  /\ AssignsBinding(ev.e, ev.scope)
  /\ ev.e.op = "-="
  /\ StatementSucceeded
  /\ LET ins == blocks[cur].ins
         n == Len(ins)
         slot == ev.scope[ev.e.lhs.name].inst
     IN /\ n >= 4
        /\ IsLoadOf(ins[n - 3], slot)
        /\ ins[n - 2].op = "sub"
        /\ IsStoreTo(ins[n - 1], slot)
        /\ IsLoadOf(ins[n], slot)

----------------------------------------------------------------------------
(* The line fetched for a diagnostic.                                      *)

\* C30: the index formatError uses to fetch the offending line from the
\* lines of the source text, the computed line number minus one, is
\* smaller than the number of lines, for every text and every span that
\* starts inside it, a span that starts on the final newline included.
C30_LineIndexInRange ==
  drv.state = "context" =>
    \A k \in 1..Len(drv.reports) :
      drv.reports[k].by = "formatError" =>
        drv.reports[k].rows - 1 < Len(splitByLine(drv.source, 1, <<>>))

----------------------------------------------------------------------------
(* Bodies of a function.                                                   *)

\* The step begins the lowering of a function definition.
DefineStep == nitems' = nitems + 1 /\ ev'.op = "define"

HasBody(M, name) == name \in DOMAIN M /\ M[name].blocks # <<>>

\* C28: a function of the module receives at most one body: the lowering
\* of a definition whose name already has a body appends no entry block to
\* that function and allocates no parameter slots.
C28_AtMostOneBody ==
  [][(DefineStep /\ HasBody(fns, ev'.node.name)) =>
       /\ fns'[ev'.node.name].blocks = fns[ev'.node.name].blocks
       /\ slots' = slots
       /\ pc' # "body"]_vars

----------------------------------------------------------------------------
(* Returns: an i32 function and a void function whose bodies return with   *)
(* no value, with a literal or with the value of a call of the void        *)
(* function, in the body and in the arms of an if.                         *)

InitRet == InitLowering(MaxItems, MaxStmts) /\ drv = NoDriver

NextRet ==
  \/ DefineBegin(CFDefs)
  \/ ReturnStmt({NoExpr, Lit(1), Call("g", <<>>)})
  \/ IfStmt(CFConds, BOOLEAN)
  \/ EndThen
  \/ EndElse
  \/ EndFunctionBody

SpecRet == InitRet /\ [][NextRet]_vars

SuccessorsIn(bs, b) ==
  UNION {IF i.op = "br" THEN {i.to}
         ELSE IF i.op = "condbr" THEN {i.to, i.else_to}
         ELSE {} : i \in {bs[b].ins[j] : j \in 1..Len(bs[b].ins)}}

StoresIn(bs, b, slot) ==
  \E j \in 1..Len(bs[b].ins) : bs[b].ins[j].op = "store" /\ bs[b].ins[j].slot = slot

\* The blocks reached from seen along blocks that hold no store to slot.
RECURSIVE StorelessReach(_, _, _)
StorelessReach(bs, seen, slot) ==
  LET more == seen \cup {s \in UNION {SuccessorsIn(bs, b) : b \in seen} :
                           ~StoresIn(bs, s, slot)}
  IN IF more = seen THEN seen ELSE StorelessReach(bs, more, slot)

\* C26: when the first body of a non-void function has been lowered, every
\* path from its entry block to its exit block passes a store to the
\* return slot before the exit block loads it: no block reached from the
\* entry without a store branches to the exit block.
C26_ReturnSlotStored ==
  [][(EndFunctionStep /\ pc' = "top" /\ frames[1].retvar # 0
        /\ fns'[ev'.func].bodies = 1) =>
       LET slot == frames[1].retvar
           exit == frames[1].end_bb
           entry == fns'[ev'.func].blocks[1]
           storeless == IF StoresIn(blocks', entry, slot) THEN {}
                        ELSE StorelessReach(blocks', {entry}, slot)
       IN \A b \in storeless : exit \notin SuccessorsIn(blocks', b)]_vars

\* The step lowers a return statement.
ReturnStep == nstmts' = nstmts + 1 /\ ev'.op = "return"

\* C27: in a function whose return type is void, which has no return slot,
\* a return statement that passes the return-type check emits no store and
\* does not write through the absent slot.
C27_NoStoreWithoutSlot ==
  [][(ReturnStep /\ frames[1].retvar = 0 /\ err' # E_RetType) =>
       /\ pc' # "crash"
       /\ \A j \in (Len(blocks[cur].ins) + 1)..Len(blocks'[cur].ins) :
            blocks'[cur].ins[j].op # "store"]_vars

----------------------------------------------------------------------------
(* The reads of the lowered arguments.                                     *)

\* C25: in the verification of the argument types of a call that has
\* passed the arity check, every index used to read the lowered arguments
\* is smaller than their number, a call of a variadic function with fewer
\* arguments than named parameters included.
C25_ArgumentReadsInRange ==
  [][(ExprStep /\ CallsKnown(ev'.e)
        /\ ~ArityError(fns[ev'.e.callee], Len(ev'.e.args))) =>
       /\ pc' # "crash"
       /\ \A r \in Lowered(ev'.e, Top.scope, fns, slots) : ~r.ub]_vars

----------------------------------------------------------------------------
(* The signedness recorded in the bindings.                                *)

SignedOf(type) == typename_to_type(type, FALSE).is_signed

\* C24: the signedness recorded in a binding is the one the type resolver
\* gives for the declared type of the variable: for the parameters a
\* function definition registers and for the variable a variable
\* definition registers.
C24_RecordedSignedness ==
  [][/\ (DefineStep /\ ~ev'.found /\ pc' = "body") =>
          \A i \in 1..Len(ev'.node.params) :
            LET p == ev'.node.params[i] IN
            exists(Top.scope', p.name) =>
              Top.scope'[p.name].is_signed = SignedOf(p.type)
     /\ (VarDefStep /\ StatementSucceeded' /\ exists(Top.scope', ev'.name)) =>
          Top.scope'[ev'.name].is_signed = SignedOf(ev'.type)]_vars

----------------------------------------------------------------------------
(* Definitions that reuse a declaration: f is declared with no parameter,  *)
(* with one under another name, with the definition's own, or with two,    *)
(* and then defined with one parameter x.                                  *)

ReuseDecls ==
  {Decl("f", ps, "void") :
     ps \in {<<>>, <<Param("q", "i32", "")>>, <<Param("x", "i32", "mutable")>>,
             <<Param("a", "i32", ""), Param("b", "i32", "")>>}}

ReuseDefs == {Decl("f", <<Param("x", "i32", "mutable")>>, "void")}

InitReuse == InitLowering(MaxItems, MaxExprStmts) /\ drv = NoDriver

NextReuse ==
  \/ DeclareItem(ReuseDecls)
  \/ DefineBegin(ReuseDefs)
  \/ VarDefStmt({"x", "q", "y"}, {"i32"}, {"", "mutable"}, {NoExpr})
  \/ ExprStmt({Bin("=", Var(n), Lit(1)) : n \in {"x", "q"}})
  \/ EndFunctionBody

SpecReuse == InitReuse /\ [][NextReuse]_vars

\* C29: when a function definition reuses an earlier declaration of its
\* name, every index used to read the definition's parameter list is
\* within the list, and the bindings the body starts with are the
\* definition's parameters: one per parameter, under its name, mutable
\* when its qualifier is mutable.
C29_DefinitionParameters ==
  [][(DefineStep /\ ev'.found) =>
       LET params == ev'.node.params
           names == {params[i].name : i \in 1..Len(params)}
       IN
       /\ pc' # "crash"
       /\ \A r \in DefineArgsResults(fns[ev'.node.name], params, slots) : ~r.ub
       /\ pc' = "body" =>
            /\ DOMAIN Top.scope' = names
            /\ \A i \in 1..Len(params) :
                 Top.scope'[params[i].name].is_mutable
                   = (params[i].qualifier = "mutable")]_vars

----------------------------------------------------------------------------
(* Statements after a terminator.                                          *)

\* The step lowers a statement: a visitor of statement_visitor is applied.
StatementStep == nstmts' = nstmts + 1

\* C21: once a statement of a compound block has terminated the insert
\* block (a return, or a break or continue inside a loop), no later
\* statement of the block is lowered: a statement is only ever lowered
\* while the insert block has no terminator, so that nothing is emitted,
\* registered or raised for the statements that follow.
C21_NothingAfterTerminator ==
  [][StatementStep => ~HasTerminator(blocks, cur)]_vars

\* A break inside a loop has terminated the insert block with a branch to
\* the loop's end block, and the budget of statements is not used up.
C21_Witness ==
  /\ pc = "body"
  /\ ev.op = "break"
  /\ ev.target # 0
  /\ HasTerminator(blocks, cur)
  /\ blocks[cur].ins[Len(blocks[cur].ins)] = Br(ev.target)
  /\ nstmts < lim.stmts

----------------------------------------------------------------------------
(* Terminators.                                                            *)

\* An i32 function and a void function whose bodies nest if statements, the
\* three loops, return, break and continue.
InitLoops == InitLowering(MaxItems, MaxStmts) /\ drv = NoDriver

NextLoops ==
  \/ DefineBegin(CFDefs)
  \/ ReturnStmt({Lit(1)})
  \/ BreakStmt
  \/ ContinueStmt
  \/ IfStmt(CFConds, BOOLEAN)
  \/ EndThen
  \/ EndElse
  \/ LoopStmt
  \/ EndLoopBody
  \/ WhileStmt(CFConds)
  \/ EndWhileBody
  \/ ForStmt({NoExpr}, {NoExpr})
  \/ EndForBody({NoExpr})
  \/ EndFunctionBody

SpecLoops == InitLoops /\ [][NextLoops]_vars

Terminators(bs, b) == {j \in 1..Len(bs[b].ins) : IsTerminator(bs[b].ins[j])}

\* C22: no instruction is ever appended to a basic block that has a
\* terminator, and when the lowering of a function has finished every
\* basic block inserted into it holds exactly one terminator, its last
\* instruction; so does the exit block.
C22_OneTerminatorPerBlock ==
  [][/\ \A b \in 1..Len(blocks) :
          HasTerminator(blocks, b) => blocks'[b].ins = blocks[b].ins
     /\ (EndFunctionStep /\ pc' = "top") =>
          \A j \in 1..Len(fns'[ev'.func].blocks) :
            LET b == fns'[ev'.func].blocks[j] IN
            Terminators(blocks', b) = {Len(blocks'[b].ins)}]_vars

\* A void function whose body held an if statement with an else arm has
\* been lowered: entry, then, else, merge and exit blocks.
C22_Witness ==
  /\ pc = "top"
  /\ ev.op = "end_function"
  /\ ev.func \in DOMAIN fns
  /\ fns[ev.func].ret = "void"
  /\ Len(fns[ev.func].blocks) >= 5
  /\ \E b \in 1..Len(blocks) :
       blocks[b].ins # <<>> /\ blocks[b].ins[Len(blocks[b].ins)].op = "condbr"

----------------------------------------------------------------------------
(* The targets of break and continue.                                      *)

LoopFrames == {i \in 1..Len(frames) : frames[i].k \in LoopKinds}

\* The frame of the nearest loop statement being lowered.
NearestLoop == frames[CHOOSE i \in LoopFrames : \A j \in LoopFrames : j <= i]

LastOf(bs, b) == bs[b].ins[Len(bs[b].ins)]

\* t is the block a continue of loop L has to reach: the body block of a
\* plain loop, the block the loop statement branched to; the condition
\* block of a while, which branches to the body or to the exit block; the
\* increment block of a for, which is inserted after the body.
IsContinueTarget(L, t) ==
  CASE L.k = "loop"  -> /\ blocks[t].parent = L.func
                        /\ \E p \in 1..(t - 1) :
                             blocks[p].ins # <<>> /\ LastOf(blocks, p) = Br(t)
    [] L.k = "while" -> /\ blocks[t].parent = L.func
                        /\ blocks[t].ins # <<>>
                        /\ LastOf(blocks, t).op = "condbr"
                        /\ LastOf(blocks, t).else_to = L.loop_end_bb
    [] L.k = "for"   -> /\ blocks[t].parent = ""
                        /\ t # L.loop_end_bb
                        /\ t = L.continue_bb

\* The step ends the lowering of a loop statement.
LoopEndStep ==
  /\ ev'.op \in {"end_loop", "end_while", "end_for"}
  /\ Len(frames') = Len(frames) - 2
  /\ pc' = "body"

====
